---- MODULE Spec2Model ----
(***************************************************************************)
(* Receipt ingestion service: upload pipeline, quota ledger, record store, *)
(* blob store and the extraction client with retry.                        *)
(*                                                                         *)
(* The request handlers of routers/records.py and routers/line.py are      *)
(* modelled step by step (one action per externally visible step of a      *)
(* handler); analyze_with_gemini_retry of services/gemini_service.py is    *)
(* modelled attempt by attempt under its own specification SpecRetry.      *)
(***************************************************************************)
EXTENDS Integers, Sequences, FiniteSets, TLC

VARIABLES
    users,      \* users collection: u -> [exists, used, limit, line_user_id]
    records,    \* records subcollections: set of documents keyed by (owner, id)
    blobs,      \* keys of the objects stored in the bucket
    tempFiles,  \* files present in UPLOAD_DIR
    clock,      \* time.time() in milliseconds
    req,        \* request slot -> state of the handler running in it
    rt,         \* state of one call of analyze_with_gemini_retry
    tokens      \* line_tokens collection: token -> [exists, user_id, used]

vars == <<users, records, blobs, tempFiles, clock, req, rt, tokens>>

pipeVars == <<users, records, blobs, tempFiles, clock, req, tokens>>

----------------------------------------------------------------------------
(* Bounds of the model *)

MaxFiles == 2       \* files per upload batch when every step may fail
MaxBatch == 3       \* files per upload batch when only the extraction may fail
MaxItems == 2       \* items returned by one extraction
MaxClock == 3       \* last millisecond the model reaches
MaxIds == 3         \* record ids in one bulk-delete request
MaxRetriesArg == 4  \* largest max_retries passed to the extraction client
MaxPolls == 2       \* polls of the PROCESSING state in one attempt
MaxConcIds == 2       \* record ids in a bulk delete that runs beside another request
MaxConcFiles == 2     \* files of an upload that runs beside another request
MaxAmountLen == 3     \* characters of a typed amount

(* Program constants *)

FREE_LIMIT == 10            \* config.PLANS["free"]["limit"]
DEFAULT_MAX_RETRIES == 3    \* analyze_with_gemini_retry(max_retries=3)
MS_PER_SEC == 1000          \* int(time.time()*1000) against int(time.time())

BUCKET_NAME == "my-receipt-app-storage-01"

Users == {"u1", "u2"}
Reqs == {"r1", "r2"}
LineIds == {"L1", "L2"}   \* L1 is linked to an account, L2 to none
TokenIds == {"T1", "T2"}  \* link tokens generate_token(8) can return
None == "None"
NoTime == -9

(* uploaded file names and os.path.splitext(name)[1] *)
FileNames == {"a.jpg", "b.pdf"}

Ext(name) == CASE name = "a.jpg" -> ".jpg"
               [] name = "b.pdf" -> ".pdf"
               [] OTHER -> ".jpg"

IsPdfName(name) == Ext(name) = ".pdf"

(* outcomes of a call to a collaborator (file system, bucket, Firestore) *)
Reliable == {"ok"}
Faulty == {"ok", "fail"}

(* pages of a PDF as convert_pdf_to_images sees them: n pages, and failAt = 0 *)
(* or the page whose upload raises                                           *)
PdfOutcomes == {[n |-> 0, failAt |-> 0], [n |-> 1, failAt |-> 0], [n |-> 1, failAt |-> 1]}

----------------------------------------------------------------------------
(* Generic helpers *)

RECURSIVE Pow2(_)
Pow2(n) == IF n <= 0 THEN 1 ELSE 2 * Pow2(n - 1)

Max(a, b) == IF a >= b THEN a ELSE b

SeqsUpTo(S, n) == UNION {[1..k -> S] : k \in 0..n}

CountStatus(results, st) == Cardinality({i \in 1..Len(results) : results[i].status = st})

CountError(results, err) == Cardinality({i \in 1..Len(results) : results[i].error = err})

----------------------------------------------------------------------------
(* Data *)

NoPath == [pre |-> None, t |-> NoTime, ext |-> None, page |-> 0]
NoKey == [dir |-> None, sec |-> NoTime, t |-> NoTime, ext |-> None, page |-> 0]
NoUrl == [bucket |-> None, key |-> NoKey]
NoResponse ==
    [code |-> 0, total |-> 0, success |-> 0, errors |-> 0, deleted |-> 0, failed |-> 0,
     updated |-> 0, reply |-> None]

LINE_IMAGE == "line.jpg"    \* the image of a chat message (it has no file name)

NoRecord ==
    [owner |-> None, id |-> NoTime, image_url |-> NoUrl, is_pdf |-> FALSE,
     pdf_images |-> <<>>, original_filename |-> None, source |-> None,
     date |-> None, vendor_name |-> None, total_amount |-> 0, category |-> None]

(* the fields of a receipt as the extraction returned them, and the category *)
(* every new record gets                                                     *)
ITEM_DATE == "2025-01-01"
ITEM_VENDOR == "shop"
ITEM_AMOUNT == 1234
DEFAULT_CATEGORY == "other"

NoToken == [exists |-> FALSE, user_id |-> None, used |-> FALSE]

NoTokens == [t \in TokenIds |-> NoToken]

(* what json.loads hands back: a list of n values, or a single value *)
ExtractShapes ==
    {[raised |-> FALSE, isList |-> TRUE, n |-> k, date |-> ITEM_DATE] : k \in 0..MaxItems}
    \cup {[raised |-> FALSE, isList |-> FALSE, n |-> 1, date |-> ITEM_DATE]}

ExtractionFailed == [raised |-> TRUE, isList |-> TRUE, n |-> 0, date |-> ITEM_DATE]

NoData == [raised |-> FALSE, isList |-> TRUE, n |-> 0, date |-> ITEM_DATE]

Idle ==
    [op |-> "none", pc |-> "idle", u |-> None, files |-> <<>>, idx |-> 0,
     temp_path |-> NoPath, public_url |-> NoUrl, pdf_image_urls |-> <<>>,
     data_list |-> NoData, item |-> 0, doc_id |-> NoTime, all_results |-> <<>>,
     usedAtStart |-> 0, record_ids |-> <<>>, record_data |-> NoRecord,
     deleted_count |-> 0, failed_count |-> 0, response |-> NoResponse,
     gcs_deletes |-> <<>>,   \* urls delete_from_gcs was called with, in order
     faults |-> {},          \* collaborators that failed during a deletion
     pre_failed |-> {},      \* preprocessing steps that failed, with the file's index
     seen |-> {},            \* records the stream of delete_user returned
     data |-> <<>>,          \* the request body of an update
     updated_count |-> 0,
     token |-> None,         \* the token generated or sent
     line_user_id |-> None,  \* the chat identity of the sender
     bound |-> FALSE,        \* the request has written line_user_id
     plan |-> None]          \* the plan id of a subscription change

----------------------------------------------------------------------------
(* utils/helpers.py *)

(* the gate with "used <= limit" *)
check_usage_limit_le(u) ==
    IF ~users[u].exists THEN FALSE ELSE users[u].used <= users[u].limit

(* the gate without the test of user_doc.exists *)
check_usage_limit_unchecked(u) == users[u].used < users[u].limit

(* check_usage_limit: lines 17-29 *)

check_usage_limit(u) ==
    IF ~users[u].exists THEN FALSE ELSE users[u].used < users[u].limit

(* get_user_by_line_id: the users the query can return first *)
get_user_by_line_id(l) == {u \in Users : users[u].exists /\ users[u].line_user_id = l}

(* services/storage_service.py *)

GcsUrl(key) == [bucket |-> BUCKET_NAME, key |-> key]

(* delete_from_gcs: the bucket after the call *)
delete_from_gcs(bs, url) ==
    IF url.bucket = BUCKET_NAME /\ url.key \in bs THEN bs \ {url.key} ELSE bs

(* a delete_from_gcs that lets the bucket's error through *)
GcsDeleteRaisesOnError(b) == b = "fail"

(* delete_from_gcs lines 18 and 28-30: every exception is caught and the call *)
(* returns False, so the caller never sees an error of the bucket             *)
GcsDeleteRaises(b) == FALSE

(* names derived from time.time() *)

(* time.time() never runs backwards: a read returns the last value read or a *)
(* later one (one millisecond later stands for any later time)               *)
Nows == {t \in {clock, clock + 1} : t <= MaxClock}

SafePath(now, ext) == [pre |-> "", t |-> now, ext |-> ext, page |-> 0]

LinePath(now) == [pre |-> "line_", t |-> now \div MS_PER_SEC, ext |-> ".jpg", page |-> 0]

ReceiptKey(path) ==
    [dir |-> "receipts", sec |-> NoTime, t |-> path.t, ext |-> path.ext, page |-> 0]

LineKey(now) ==
    [dir |-> "line_receipts", sec |-> now \div MS_PER_SEC, t |-> NoTime, ext |-> ".jpg", page |-> 0]

PageKey(path, i) ==
    [dir |-> "pdf_images", sec |-> clock \div MS_PER_SEC, t |-> path.t, ext |-> ".jpg", page |-> i]

PagePath(path, i) == [pre |-> "", t |-> path.t, ext |-> ".jpg", page |-> i]

(* record store *)

RecordsOf(u) == {d \in records : d.owner = u}

DocExists(u, id) == \E d \in records : d.owner = u /\ d.id = id

GetDoc(u, id) == CHOOSE d \in records : d.owner = u /\ d.id = id

(* document(doc_id).set(item): create or overwrite *)
SetDoc(rs, d) == {e \in rs : ~(e.owner = d.owner /\ e.id = d.id)} \cup {d}

(* a delete that finds the document by its id alone *)
DeleteDocAnyOwner(rs, u, id) == {e \in rs : e.id # id}

DeleteDoc(rs, u, id) == {e \in rs : ~(e.owner = u /\ e.id = id)}

(* a read-modify-write in the handler: the value read when the request *)
(* started, plus n, is written back                                    *)
IncrementUsedReadModifyWrite(us, u, n) ==
    LET snapshots == {req[r].usedAtStart : r \in {x \in Reqs : req[x].u = u /\ req[x].pc # "done"}}
        read == CHOOSE v \in snapshots : \A w \in snapshots : v <= w
    IN  [us EXCEPT ![u].used = read + n]

(* update({"subscription.used": firestore.Increment(n)}) *)
IncrementUsed(us, u, n) == [us EXCEPT ![u].used = @ + n]

----------------------------------------------------------------------------
(* routers/records.py: upload_receipt; routers/line.py: handle_image_message. *)
(* The chat-image handler runs the same steps on its one image, so the steps  *)
(* below serve both, told apart by q.op ("upload" or "line").                 *)

Ingesting(q) == q.op \in {"upload", "line"}

Entry(q, st, cnt, err) ==
    [filename |-> q.files[q.idx], status |-> st, records_count |-> cnt, error |-> err]

(* lines 127-140 of upload_receipt; the reply of handle_image_message *)
Summary(q, results) ==
    [NoResponse EXCEPT !.code = 200,
                       !.total = Len(q.files),
                       !.success = CountStatus(results, "success"),
                       !.errors = CountStatus(results, "error"),
                       !.reply = IF q.op # "line" THEN None
                                 ELSE IF CountStatus(results, "error") = 0 THEN "done"
                                 ELSE "failed"]

(* end of one iteration of the loop over files: the entry is appended and *)
(* the loop goes on with the next file or the handler returns the summary *)
FileDone(q, entry) ==
    LET results == Append(q.all_results, entry)
        base == [q EXCEPT !.all_results = results,
                          !.temp_path = NoPath, !.public_url = NoUrl,
                          !.pdf_image_urls = <<>>, !.data_list = NoData,
                          !.item = 0, !.doc_id = NoTime]
    IN  IF q.idx = Len(q.files)
        THEN [base EXCEPT !.pc = "done", !.response = Summary(q, results)]
        ELSE [base EXCEPT !.pc = "save", !.idx = q.idx + 1]

(* an except clause outside the loop: the first failing file ends the batch *)
FileErrorAbortsBatch(q, err) ==
    [q EXCEPT !.all_results = Append(q.all_results, Entry(q, "error", 0, err)),
              !.pc = "done",
              !.response = Summary(q, Append(q.all_results, Entry(q, "error", 0, err)))]

(* the except clause: lines 117-125 of upload_receipt, 226-233 of line.py *)
FileError(q, err) == FileDone(q, Entry(q, "error", 0, err))

(* an upload that evaluates the quota gate before it looks at the file list *)
StartUploadGateFirst(r, us, batches) ==
    /\ req[r].pc = "idle"
    /\ \E u \in us, files \in batches :
        LET q0 == [Idle EXCEPT !.op = "upload", !.u = u, !.files = files,
                               !.usedAtStart = users[u].used]
        IN  req' = [req EXCEPT ![r] =
                IF ~check_usage_limit(u)
                THEN [q0 EXCEPT !.pc = "done", !.response = [NoResponse EXCEPT !.code = 403]]
                ELSE IF Len(files) = 0
                THEN [q0 EXCEPT !.pc = "done", !.response = [NoResponse EXCEPT !.code = 400]]
                ELSE [q0 EXCEPT !.pc = "save", !.idx = 1]]
    /\ UNCHANGED <<users, records, blobs, tempFiles, clock, rt, tokens>>

(* upload_receipt lines 28-38: empty-list check, quota gate *)
StartUpload(r, us, batches) ==
    /\ req[r].pc = "idle"
    /\ \E u \in us, files \in batches :
        LET q0 == [Idle EXCEPT !.op = "upload", !.u = u, !.files = files,
                               !.usedAtStart = users[u].used]
        IN  req' = [req EXCEPT ![r] =
                IF Len(files) = 0
                THEN [q0 EXCEPT !.pc = "done", !.response = [NoResponse EXCEPT !.code = 400]]
                ELSE IF ~check_usage_limit(u)
                THEN [q0 EXCEPT !.pc = "done", !.response = [NoResponse EXCEPT !.code = 403]]
                ELSE [q0 EXCEPT !.pc = "save", !.idx = 1]]
    /\ UNCHANGED <<users, records, blobs, tempFiles, clock, rt, tokens>>

(* handle_image_message lines 136-158: resolve the chat identity, quota gate *)
StartLineImage(r) ==
    /\ req[r].pc = "idle"
    /\ \E l \in LineIds :
        LET q0 == [Idle EXCEPT !.op = "line", !.files = <<LINE_IMAGE>>]
            reply(text) == [NoResponse EXCEPT !.code = 200, !.reply = text]
        IN  \/ /\ get_user_by_line_id(l) = {}
               /\ req' = [req EXCEPT ![r] =
                            [q0 EXCEPT !.pc = "done", !.response = reply("not_linked")]]
            \/ \E u \in get_user_by_line_id(l) :
                 req' = [req EXCEPT ![r] =
                    IF ~check_usage_limit(u)
                    THEN [q0 EXCEPT !.u = u, !.usedAtStart = users[u].used,
                                    !.pc = "done", !.response = reply("limit")]
                    ELSE [q0 EXCEPT !.u = u, !.usedAtStart = users[u].used,
                                    !.pc = "save", !.idx = 1]]
    /\ UNCHANGED <<users, records, blobs, tempFiles, clock, rt, tokens>>

(* upload_receipt lines 44-56, handle_image_message lines 163-171: generated *)
(* name, bytes written to UPLOAD_DIR; a failed write may leave the file      *)
SaveFile(r, outs) ==
    LET q == req[r]
    IN  /\ Ingesting(q) /\ q.pc = "save"
        /\ \E now \in Nows, o \in outs, written \in BOOLEAN :
            LET path == IF q.op = "line" THEN LinePath(now)
                        ELSE SafePath(now, Ext(q.files[q.idx]))
            IN  /\ clock' = now
                /\ o = "ok" => written
                /\ tempFiles' = IF written THEN tempFiles \cup {path} ELSE tempFiles
                /\ req' = [req EXCEPT ![r] =
                            IF o = "ok" THEN [q EXCEPT !.temp_path = path, !.pc = "upload"]
                            ELSE FileError(q, "save")]
        /\ UNCHANGED <<users, records, blobs, rt, tokens>>

(* services/image_service.py: convert_pdf_to_images. The pages before the *)
(* failing one are in the bucket, the failing page's local image stays in *)
(* UPLOAD_DIR and the function returns []                                 *)
PdfUploaded(p) == IF p.failAt = 0 THEN 1..p.n ELSE 1..(p.failAt - 1)

PdfUrls(path, p) ==
    IF p.failAt = 0 THEN [i \in 1..p.n |-> GcsUrl(PageKey(path, i))] ELSE <<>>

(* a compression whose failure reaches the caller *)
compress_image_unguarded(input_path, c) == [path |-> input_path, raised |-> c = "fail"]

(* services/image_service.py: compress_image with output_path = None. The *)
(* image is written over the input; the except clause of lines 50-52      *)
(* returns input_path, so the call returns the same path whether the      *)
(* compression succeeded or not, and raises nothing                       *)
compress_image(input_path, c) == [path |-> input_path, raised |-> FALSE]

(* upload_receipt lines 58-78, handle_image_message lines 173-181: compress *)
(* an image, upload the primary file, rasterize a PDF; pres are the         *)
(* outcomes the compression can have                                        *)
UploadBlob(r, outs, pres) ==
    LET q == req[r]
        is_pdf == q.op = "upload" /\ IsPdfName(q.files[q.idx])
    IN  /\ Ingesting(q) /\ q.pc = "upload"
        /\ \E o \in outs, p \in PdfOutcomes, c \in pres :
            LET compressed == IF is_pdf THEN [path |-> q.temp_path, raised |-> FALSE]
                              ELSE compress_image(q.temp_path, c)
                path == compressed.path
                key == IF q.op = "line" THEN LineKey(clock) ELSE ReceiptKey(path)
                failed == compressed.raised \/ o = "fail"
                pre == (IF ~is_pdf /\ c = "fail"
                        THEN {[idx |-> q.idx, step |-> "compress"]} ELSE {})
                       \cup (IF ~failed /\ p.failAt # 0
                             THEN {[idx |-> q.idx, step |-> "rasterize"]} ELSE {})
            IN  /\ is_pdf => c = "ok"
                /\ ~is_pdf => p.n = 0
                /\ failed => p.n = 0
                /\ blobs' = IF failed THEN blobs
                            ELSE blobs \cup {key} \cup {PageKey(path, i) : i \in PdfUploaded(p)}
                /\ tempFiles' = IF p.failAt = 0 THEN tempFiles
                                ELSE tempFiles \cup {PagePath(path, p.failAt)}
                /\ req' = [req EXCEPT ![r] =
                            IF compressed.raised
                            THEN FileError([q EXCEPT !.pre_failed = q.pre_failed \cup pre], "compress")
                            ELSE IF o = "fail"
                            THEN FileError([q EXCEPT !.pre_failed = q.pre_failed \cup pre], "upload")
                            ELSE [q EXCEPT !.public_url = GcsUrl(key),
                                           !.pdf_image_urls = PdfUrls(path, p),
                                           !.temp_path = path,
                                           !.pre_failed = q.pre_failed \cup pre,
                                           !.pc = "extract"]]
        /\ UNCHANGED <<users, records, clock, rt, tokens>>

(* upload_receipt line 82, handle_image_message line 185:                    *)
(* analyze_with_gemini_retry(temp_path, max_retries=3) returns the parsed    *)
(* response or raises                                                        *)
Extract(r, results) ==
    LET q == req[r]
    IN  /\ Ingesting(q) /\ q.pc = "extract"
        /\ \E d \in results :
            req' = [req EXCEPT ![r] =
                IF d.raised THEN FileError(q, "extraction")
                ELSE [q EXCEPT !.data_list = d, !.item = 1,
                               !.pc = IF d.n = 0 THEN "incr" ELSE "persist"]]
        /\ UNCHANGED <<users, records, blobs, tempFiles, clock, rt, tokens>>

(* upload_receipt line 87, handle_image_message line 190: the id is the   *)
(* current millisecond                                                    *)
GenDocId(r) ==
    LET q == req[r]
    IN  /\ Ingesting(q) /\ q.pc = "persist"
        /\ clock < MaxClock
        /\ req' = [req EXCEPT ![r].doc_id = clock, ![r].pc = "set"]
        /\ UNCHANGED <<users, records, blobs, tempFiles, clock, rt, tokens>>

(* the loop over the items leaves after the first item *)
AfterItemFirstOnly(q) == "incr"

(* line 86 / line 189: the loop over the items goes on until the last item *)
AfterItem(q) == IF q.item = q.data_list.n THEN "incr" ELSE "persist"

(* a record that is tagged as a web upload whatever the ingress was *)
NewRecordTaggedWeb(q) ==
    [owner |-> q.u, id |-> q.doc_id, image_url |-> q.public_url,
     is_pdf |-> q.op = "upload" /\ IsPdfName(q.files[q.idx]),
     pdf_images |-> IF q.op = "upload" /\ IsPdfName(q.files[q.idx])
                    THEN q.pdf_image_urls ELSE <<>>,
     original_filename |-> IF q.op = "upload" THEN q.files[q.idx] ELSE None,
     source |-> "web",
     date |-> ITEM_DATE, vendor_name |-> ITEM_VENDOR, total_amount |-> ITEM_AMOUNT,
     category |-> DEFAULT_CATEGORY]

NewRecord(q) ==
    [owner |-> q.u, id |-> q.doc_id, image_url |-> q.public_url,
     is_pdf |-> q.op = "upload" /\ IsPdfName(q.files[q.idx]),
     pdf_images |-> IF q.op = "upload" /\ IsPdfName(q.files[q.idx])
                    THEN q.pdf_image_urls ELSE <<>>,
     original_filename |-> IF q.op = "upload" THEN q.files[q.idx] ELSE None,
     source |-> IF q.op = "upload" THEN "web" ELSE "line",
     date |-> q.data_list.date, vendor_name |-> ITEM_VENDOR, total_amount |-> ITEM_AMOUNT,
     category |-> DEFAULT_CATEGORY]

(* upload_receipt lines 88-100, handle_image_message lines 191-201: the    *)
(* sleep of one millisecond is over, item.update (raises unless the item   *)
(* is a JSON object), document(doc_id).set(item)                           *)
SetRecord(r, kinds, outs) ==
    LET q == req[r]
    IN  /\ Ingesting(q) /\ q.pc = "set"
        /\ clock' = Max(clock, q.doc_id + 1)
        /\ \E kind \in kinds, o \in outs :
            /\ kind = "bad" => o = "ok"
            /\ records' = IF kind = "dict" /\ o = "ok"
                          THEN SetDoc(records, NewRecord(q)) ELSE records
            /\ req' = [req EXCEPT ![r] =
                        IF kind = "bad" THEN FileError(q, "item")
                        ELSE IF o = "fail" THEN FileError(q, "write")
                        ELSE [q EXCEPT !.item = q.item + 1, !.doc_id = NoTime,
                                       !.pc = AfterItem(q)]]
        /\ UNCHANGED <<users, blobs, tempFiles, rt, tokens>>

RecordsCount(d) == IF d.isList THEN d.n ELSE 1

(* the counter charged per extracted item *)
UsageDeltaPerItem(q) == RecordsCount(q.data_list)

(* firestore.Increment(1): one unit per file, whatever the extraction returned *)
UsageDelta(q) == 1

(* upload_receipt lines 102-105, handle_image_message lines 203-206:        *)
(* subscription.used += 1; update() raises on a missing user document       *)
IncrementUsage(r, outs) ==
    LET q == req[r]
    IN  /\ Ingesting(q) /\ q.pc = "incr"
        /\ \E o \in outs :
            LET ok == o = "ok" /\ users[q.u].exists
            IN  /\ users' = IF ok THEN IncrementUsed(users, q.u, UsageDelta(q)) ELSE users
                /\ req' = [req EXCEPT ![r] =
                            IF ok THEN [q EXCEPT !.pc = "remove"]
                            ELSE FileError(q, "increment")]
        /\ UNCHANGED <<records, blobs, tempFiles, clock, rt, tokens>>

(* upload_receipt lines 107-114, handle_image_message line 209:             *)
(* os.remove(temp_path) (raises when the file is gone), success entry       *)
RemoveTemp(r, outs) ==
    LET q == req[r]
    IN  /\ Ingesting(q) /\ q.pc = "remove"
        /\ \E o \in outs :
            LET ok == o = "ok" /\ q.temp_path \in tempFiles
            IN  /\ tempFiles' = IF ok THEN tempFiles \ {q.temp_path} ELSE tempFiles
                /\ req' = [req EXCEPT ![r] =
                            IF ok
                            THEN FileDone(q, Entry(q, "success", RecordsCount(q.data_list), None))
                            ELSE FileError(q, "remove")]
        /\ UNCHANGED <<users, records, blobs, clock, rt, tokens>>

----------------------------------------------------------------------------
(* routers/records.py: delete_record and bulk_delete_records *)

(* lines 204-212 and 247-255: delete_from_gcs on the primary image and, for *)
(* a PDF, on every page image; a blob error is swallowed (the blob stays)   *)
RECURSIVE DeleteAll(_, _)
DeleteAll(bs, urls) ==
    IF urls = <<>> THEN bs ELSE DeleteAll(delete_from_gcs(bs, Head(urls)), Tail(urls))

(* the urls when the page images are left alone *)
RecordUrlsPrimaryOnly(d) == IF d.image_url # NoUrl THEN <<d.image_url>> ELSE <<>>

RecordUrls(d) ==
    (IF d.image_url # NoUrl THEN <<d.image_url>> ELSE <<>>)
    \o (IF d.is_pdf THEN d.pdf_images ELSE <<>>)

Http(code) == [NoResponse EXCEPT !.code = code]

(* delete_record lines 196-202: the document is read; the 404 raised inside *)
(* the try block is caught by "except Exception" and sent as a 500          *)
StartDelete(r, us, ids) ==
    /\ req[r].pc = "idle"
    /\ \E u \in us, id \in ids :
        LET q0 == [Idle EXCEPT !.op = "delete", !.u = u, !.record_ids = <<id>>,
                               !.usedAtStart = users[u].used]
        IN  req' = [req EXCEPT ![r] =
                IF DocExists(u, id)
                THEN [q0 EXCEPT !.pc = "delete", !.record_data = GetDoc(u, id)]
                ELSE [q0 EXCEPT !.pc = "done", !.response = Http(500)]]
    /\ UNCHANGED <<users, records, blobs, tempFiles, clock, rt, tokens>>

(* the request after the calls of delete_from_gcs for one record *)
AfterGcs(q, b) ==
    [q EXCEPT !.gcs_deletes = q.gcs_deletes \o RecordUrls(q.record_data),
              !.faults = IF b = "fail" THEN q.faults \cup {"blob"} ELSE q.faults]

(* delete_record lines 204-215: blobs, then the document *)
DeleteRecordDoc(r, bouts, outs) ==
    LET q == req[r]
    IN  /\ q.op = "delete" /\ q.pc = "delete"
        /\ \E b \in bouts, o \in outs :
            LET raised == GcsDeleteRaises(b)
                q1 == AfterGcs(q, b)
            IN  /\ raised => o = "ok"
                /\ blobs' = IF b = "ok" THEN DeleteAll(blobs, RecordUrls(q.record_data))
                            ELSE blobs
                /\ records' = IF ~raised /\ o = "ok"
                              THEN DeleteDoc(records, q.u, q.record_ids[1]) ELSE records
                /\ req' = [req EXCEPT ![r] =
                            IF raised THEN [q1 EXCEPT !.pc = "done", !.response = Http(500)]
                            ELSE IF o = "ok" THEN [q1 EXCEPT !.pc = "decrement"]
                            ELSE [q1 EXCEPT !.pc = "done", !.response = Http(500),
                                            !.faults = q1.faults \cup {"db"}]]
        /\ UNCHANGED <<users, tempFiles, clock, rt, tokens>>

(* delete_record lines 217-222: subscription.used -= 1 *)
DecrementUsage(r, outs) ==
    LET q == req[r]
    IN  /\ q.op = "delete" /\ q.pc = "decrement"
        /\ \E o \in outs :
            LET ok == o = "ok" /\ users[q.u].exists
            IN  /\ users' = IF ok THEN IncrementUsed(users, q.u, -1) ELSE users
                /\ req' = [req EXCEPT ![r].pc = "done",
                                      ![r].response = IF ok THEN Http(200) ELSE Http(500),
                                      ![r].faults = IF ok THEN q.faults
                                                    ELSE q.faults \cup {"db"}]
        /\ UNCHANGED <<records, blobs, tempFiles, clock, rt, tokens>>

(* bulk_delete_records lines 230-236 *)
StartBulkDelete(r, us, idLists) ==
    /\ req[r].pc = "idle"
    /\ \E u \in us, record_ids \in idLists :
        LET q0 == [Idle EXCEPT !.op = "bulk_delete", !.u = u, !.record_ids = record_ids,
                               !.usedAtStart = users[u].used]
        IN  req' = [req EXCEPT ![r] =
                IF Len(record_ids) = 0
                THEN [q0 EXCEPT !.pc = "done", !.response = Http(400)]
                ELSE [q0 EXCEPT !.pc = "bulk_get", !.idx = 1]]
    /\ UNCHANGED <<users, records, blobs, tempFiles, clock, rt, tokens>>

(* the loop goes on with the next id, or leaves for the decrement *)
BulkNext(q) ==
    IF q.idx = Len(q.record_ids)
    THEN [q EXCEPT !.pc = "bulk_finish", !.record_data = NoRecord]
    ELSE [q EXCEPT !.pc = "bulk_get", !.idx = q.idx + 1, !.record_data = NoRecord]

(* what the loop does with an id whose document does not exist: nothing, *)
(* "if doc.exists:" of line 244 has no else branch                       *)
BulkMissing(q) == BulkNext(q)

(* bulk_delete_records lines 241-245 and 259-261: the document is read *)
BulkGet(r, outs) ==
    LET q == req[r]
        id == q.record_ids[q.idx]
    IN  /\ q.op = "bulk_delete" /\ q.pc = "bulk_get"
        /\ \E o \in outs :
            req' = [req EXCEPT ![r] =
                IF o = "fail" THEN BulkNext([q EXCEPT !.failed_count = q.failed_count + 1])
                ELSE IF DocExists(q.u, id)
                THEN [q EXCEPT !.pc = "bulk_delete", !.record_data = GetDoc(q.u, id)]
                ELSE BulkMissing(q)]
        /\ UNCHANGED <<users, records, blobs, tempFiles, clock, rt, tokens>>

(* bulk_delete_records lines 247-261: blobs, then the document *)
BulkDeleteDoc(r, bouts, outs) ==
    LET q == req[r]
    IN  /\ q.op = "bulk_delete" /\ q.pc = "bulk_delete"
        /\ \E b \in bouts, o \in outs :
            LET raised == GcsDeleteRaises(b)
                q1 == AfterGcs(q, b)
            IN  /\ raised => o = "ok"
                /\ blobs' = IF b = "ok" THEN DeleteAll(blobs, RecordUrls(q.record_data))
                            ELSE blobs
                /\ records' = IF ~raised /\ o = "ok"
                              THEN DeleteDoc(records, q.u, q.record_ids[q.idx]) ELSE records
                /\ req' = [req EXCEPT ![r] =
                            IF ~raised /\ o = "ok"
                            THEN BulkNext([q1 EXCEPT !.deleted_count = q.deleted_count + 1])
                            ELSE BulkNext([q1 EXCEPT !.failed_count = q.failed_count + 1,
                                                     !.faults = IF raised THEN q1.faults
                                                                ELSE q1.faults \cup {"db"}])]
        /\ UNCHANGED <<users, tempFiles, clock, rt, tokens>>

(* bulk_delete_records lines 263-273: one decrement by deleted_count *)
BulkFinish(r, outs) ==
    LET q == req[r]
    IN  /\ q.op = "bulk_delete" /\ q.pc = "bulk_finish"
        /\ \E o \in outs :
            LET ok == q.deleted_count = 0 \/ (o = "ok" /\ users[q.u].exists)
            IN  /\ users' = IF ok /\ q.deleted_count > 0
                            THEN IncrementUsed(users, q.u, -q.deleted_count) ELSE users
                /\ req' = [req EXCEPT ![r].pc = "done",
                                      ![r].response =
                                        IF ok THEN [Http(200) EXCEPT !.deleted = q.deleted_count,
                                                                     !.failed = q.failed_count]
                                        ELSE Http(500)]
        /\ UNCHANGED <<records, blobs, tempFiles, clock, rt, tokens>>

----------------------------------------------------------------------------
(* routers/records.py: update_record and bulk_update_records. A string is *)
(* a sequence of one-character strings.                                   *)

Absent == "Absent"          \* the key is not in the request body

DigitChars == <<"0", "1", "2", "3", "4", "5", "6", "7", "8", "9">>
Digits == {DigitChars[i] : i \in 1..10}
DigitVal(c) == (CHOOSE i \in 1..10 : DigitChars[i] = c) - 1
Whitespace == {" "}

(* str(n) of an integer *)
RECURSIVE NatStr(_)
NatStr(n) == IF n < 10 THEN <<DigitChars[n + 1]>>
             ELSE NatStr(n \div 10) \o <<DigitChars[(n % 10) + 1]>>

IntStr(n) == IF n < 0 THEN <<"-">> \o NatStr(-n) ELSE NatStr(n)

(* str(value) of the JSON value of total_amount: a string is itself, an    *)
(* integer its decimal digits, null is "None"                              *)
PyStr(v) ==
    CASE v.kind = "str" -> v.s
      [] v.kind = "int" -> IntStr(v.n)
      [] OTHER -> <<"N", "o", "n", "e">>

(* s.replace(c, "") *)
Remove(s, c) == SelectSeq(s, LAMBDA x : x # c)

(* s.strip() *)
RECURSIVE LStrip(_)
LStrip(s) == IF s # <<>> /\ Head(s) \in Whitespace THEN LStrip(Tail(s)) ELSE s

RECURSIVE RStrip(_)
RStrip(s) == IF s # <<>> /\ s[Len(s)] \in Whitespace
             THEN RStrip(SubSeq(s, 1, Len(s) - 1)) ELSE s

(* a strip that also removes the blanks inside *)
StripEverywhere(s) == Remove(s, " ")

Strip(s) == RStrip(LStrip(s))

(* the normalization that removes only the thousands separators *)
NormalizeAmountCommasOnly(v) == Strip(Remove(PyStr(v), ","))

(* line 167: str(x).replace(",", "").replace("¥", "").strip() *)
NormalizeAmount(v) == Strip(Remove(Remove(PyStr(v), ","), "¥"))

(* int(s) of a stripped string: an optional sign and at least one digit; *)
(* anything else raises ValueError                                       *)
Unsigned(s) == IF s # <<>> /\ Head(s) \in {"-", "+"} THEN Tail(s) ELSE s

IsIntLiteral(s) ==
    /\ Unsigned(s) # <<>>
    /\ \A i \in 1..Len(Unsigned(s)) : Unsigned(s)[i] \in Digits

RECURSIVE NatVal(_)
NatVal(s) == IF s = <<>> THEN 0
             ELSE 10 * NatVal(SubSeq(s, 1, Len(s) - 1)) + DigitVal(s[Len(s)])

IntVal(s) == IF Head(s) = "-" THEN -NatVal(Unsigned(s)) ELSE NatVal(Unsigned(s))

EditKeys == {"date", "vendor_name", "total_amount", "category"}

(* key in data; the value of total_amount is a tagged JSON value, the *)
(* value of image_url a url                                          *)
AbsentAmount == [kind |-> "absent", s |-> <<>>, n |-> 0]

AbsentValue(k) ==
    CASE k = "total_amount" -> AbsentAmount
      [] k = "image_url" -> NoUrl
      [] OTHER -> Absent

HasKey(data, k) == data[k] # AbsentValue(k)

(* an update_data that takes every key of the body *)
UpdateDataAnyKey(data) ==
    [k \in {x \in DOMAIN data : HasKey(data, x)} |->
        IF k = "total_amount" THEN IntVal(NormalizeAmount(data[k])) ELSE data[k]]

(* lines 156-173: update_data of a request body whose amount parses *)
UpdateData(data) ==
    [k \in {x \in EditKeys : HasKey(data, x)} |->
        IF k = "total_amount" THEN IntVal(NormalizeAmount(data[k])) ELSE data[k]]

(* lines 166-170: int() raises ValueError *)
AmountRejected(data) ==
    HasKey(data, "total_amount") /\ ~IsIntLiteral(NormalizeAmount(data["total_amount"]))

(* doc_ref.update(update_data): the named fields are replaced *)
UpdateDoc(d, update_data) ==
    [f \in DOMAIN d |-> IF f \in DOMAIN update_data THEN update_data[f] ELSE d[f]]

UpdateStored(rs, u, id, update_data) ==
    {IF e.owner = u /\ e.id = id THEN UpdateDoc(e, update_data) ELSE e : e \in rs}

(* update_record lines 150-173 and 182-183: the document is read (404), *)
(* update_data is built (400)                                           *)
StartUpdate(r, us, ids, bodies) ==
    /\ req[r].pc = "idle"
    /\ \E u \in us, id \in ids, data \in bodies :
        LET q0 == [Idle EXCEPT !.op = "update", !.u = u, !.record_ids = <<id>>,
                               !.usedAtStart = users[u].used, !.data = data]
        IN  req' = [req EXCEPT ![r] =
                IF ~DocExists(u, id)
                THEN [q0 EXCEPT !.pc = "done", !.response = Http(404)]
                ELSE IF AmountRejected(data)
                THEN [q0 EXCEPT !.pc = "done", !.record_data = GetDoc(u, id),
                                !.response = Http(400)]
                ELSE [q0 EXCEPT !.pc = "update", !.record_data = GetDoc(u, id)]]
    /\ UNCHANGED <<users, records, blobs, tempFiles, clock, rt, tokens>>

(* update_record lines 175-188: doc_ref.update(update_data) unless it is *)
(* empty; update() raises when the document is gone or the store fails   *)
WriteUpdate(r, outs) ==
    LET q == req[r]
        id == q.record_ids[1]
        update_data == UpdateData(q.data)
    IN  /\ q.op = "update" /\ q.pc = "update"
        /\ \E o \in outs :
            LET skipped == DOMAIN update_data = {}
                ok == skipped \/ (o = "ok" /\ DocExists(q.u, id))
            IN  /\ records' = IF ok /\ ~skipped
                              THEN UpdateStored(records, q.u, id, update_data)
                              ELSE records
                /\ req' = [req EXCEPT ![r].pc = "done",
                                      ![r].response = IF ok THEN Http(200) ELSE Http(500),
                                      ![r].faults = IF ok THEN q.faults
                                                    ELSE q.faults \cup {"db"}]
        /\ UNCHANGED <<users, blobs, tempFiles, clock, rt, tokens>>

(* a value the test "and update_fields[k]" lets through *)
Truthy(v) == v # Absent /\ v # ""

BulkKeys == {"category", "date"}

(* bulk_update_records lines 296-302 *)
BulkUpdateData(update_fields) ==
    [k \in {x \in BulkKeys : Truthy(update_fields[x])} |-> update_fields[k]]

(* no key of update_fields is present: "if not update_fields" *)
NoFields(update_fields) == \A k \in DOMAIN update_fields : update_fields[k] = Absent

(* bulk_update_records lines 278-305: the three 400 answers *)
StartBulkUpdate(r, us, idLists, fieldSets) ==
    /\ req[r].pc = "idle"
    /\ \E u \in us, record_ids \in idLists, update_fields \in fieldSets :
        LET q0 == [Idle EXCEPT !.op = "bulk_update", !.u = u, !.record_ids = record_ids,
                               !.usedAtStart = users[u].used, !.data = update_fields]
        IN  req' = [req EXCEPT ![r] =
                IF Len(record_ids) = 0 \/ NoFields(update_fields)
                   \/ DOMAIN BulkUpdateData(update_fields) = {}
                THEN [q0 EXCEPT !.pc = "done", !.response = Http(400)]
                ELSE [q0 EXCEPT !.pc = "bulk_update", !.idx = 1]]
    /\ UNCHANGED <<users, records, blobs, tempFiles, clock, rt, tokens>>

(* a missing id that is passed over without being counted *)
BulkUpdateMissingSkipped(q) == q

(* the counters of a missing id: the else branch of lines 316-318 *)
BulkUpdateMissing(q) == [q EXCEPT !.failed_count = q.failed_count + 1]

(* bulk_update_records lines 307-331: one turn of the loop; after the last *)
(* id the counters are returned                                            *)
BulkUpdateOne(r, outs) ==
    LET q == req[r]
        id == q.record_ids[q.idx]
        update_data == BulkUpdateData(q.data)
    IN  /\ q.op = "bulk_update" /\ q.pc = "bulk_update"
        /\ \E o \in outs :
            LET q1 == IF o = "fail"
                      THEN [q EXCEPT !.failed_count = q.failed_count + 1,
                                     !.faults = q.faults \cup {"db"}]
                      ELSE IF DocExists(q.u, id)
                      THEN [q EXCEPT !.updated_count = q.updated_count + 1]
                      ELSE BulkUpdateMissing(q)
            IN  /\ records' = IF o = "ok" /\ DocExists(q.u, id)
                              THEN UpdateStored(records, q.u, id, update_data)
                              ELSE records
                /\ req' = [req EXCEPT ![r] =
                            IF q.idx = Len(q.record_ids)
                            THEN [q1 EXCEPT !.pc = "done",
                                            !.response =
                                                [Http(200) EXCEPT !.updated = q1.updated_count,
                                                                  !.failed = q1.failed_count]]
                            ELSE [q1 EXCEPT !.idx = q.idx + 1]]
        /\ UNCHANGED <<users, blobs, tempFiles, clock, rt, tokens>>

----------------------------------------------------------------------------
(* routers/line.py: generate_line_token and handle_text_message *)

TokensOf(u) == {t \in TokenIds : tokens[t].exists /\ tokens[t].user_id = u}

UnusedTokensOf(u) == {t \in TokensOf(u) : ~tokens[t].used}

Reply(text) == [NoResponse EXCEPT !.code = 200, !.reply = text]

(* generate_line_token lines 31-33: the tokens of the user are queried and *)
(* deleted                                                                 *)
DeleteOldTokens(r, us) ==
    /\ req[r].pc = "idle"
    /\ \E u \in us :
        /\ tokens' = [t \in TokenIds |-> IF t \in TokensOf(u) THEN NoToken ELSE tokens[t]]
        /\ req' = [req EXCEPT ![r] = [Idle EXCEPT !.op = "gen_token", !.u = u,
                                                  !.pc = "new_token"]]
    /\ UNCHANGED <<users, records, blobs, tempFiles, clock, rt>>

(* generate_line_token lines 36-46: a random token is stored as unused *)
SetNewToken(r) ==
    LET q == req[r]
    IN  /\ q.op = "gen_token" /\ q.pc = "new_token"
        /\ \E token \in TokenIds :
            /\ tokens' = [tokens EXCEPT ![token] =
                            [exists |-> TRUE, user_id |-> q.u, used |-> FALSE]]
            /\ req' = [req EXCEPT ![r].pc = "done", ![r].token = token,
                                  ![r].response = Http(200)]
        /\ UNCHANGED <<users, records, blobs, tempFiles, clock, rt>>

(* handle_text_message lines 86-97 and 113-130: the text is looked up as a *)
(* token; a text that is no token, an unknown token and a used token are   *)
(* answered at once                                                        *)
StartRedeem(r, ls, texts) ==
    /\ req[r].pc = "idle"
    /\ \E l \in ls, text \in texts :
        LET q0 == [Idle EXCEPT !.op = "redeem", !.line_user_id = l, !.token = text]
        IN  req' = [req EXCEPT ![r] =
                IF text \notin TokenIds
                THEN [q0 EXCEPT !.pc = "done", !.response = Reply("send_image")]
                ELSE IF ~tokens[text].exists
                THEN [q0 EXCEPT !.pc = "done", !.response = Reply("token_invalid")]
                ELSE IF tokens[text].used
                THEN [q0 EXCEPT !.pc = "done", !.response = Reply("token_used")]
                ELSE [q0 EXCEPT !.pc = "bind", !.u = tokens[text].user_id]]
    /\ UNCHANGED <<users, records, blobs, tempFiles, clock, rt, tokens>>

(* handle_text_message lines 98-103: the chat identity is written to the *)
(* user document; update() raises when the document does not exist       *)
BindLineUser(r, outs) ==
    LET q == req[r]
    IN  /\ q.op = "redeem" /\ q.pc = "bind"
        /\ \E o \in outs :
            LET ok == o = "ok" /\ users[q.u].exists
            IN  /\ users' = IF ok THEN [users EXCEPT ![q.u].line_user_id = q.line_user_id]
                            ELSE users
                /\ req' = [req EXCEPT ![r] =
                            IF ok THEN [q EXCEPT !.pc = "mark_used", !.bound = TRUE]
                            ELSE [q EXCEPT !.pc = "done", !.response = Http(500),
                                           !.faults = q.faults \cup {"db"}]]
        /\ UNCHANGED <<records, blobs, tempFiles, clock, rt, tokens>>

(* handle_text_message lines 105-112: the token is marked used; update() *)
(* raises when the token document is gone                                *)
MarkTokenUsed(r, outs) ==
    LET q == req[r]
    IN  /\ q.op = "redeem" /\ q.pc = "mark_used"
        /\ \E o \in outs :
            LET ok == o = "ok" /\ tokens[q.token].exists
            IN  /\ tokens' = IF ok THEN [tokens EXCEPT ![q.token].used = TRUE] ELSE tokens
                /\ req' = [req EXCEPT ![r] =
                            IF ok THEN [q EXCEPT !.pc = "done", !.response = Reply("linked")]
                            ELSE [q EXCEPT !.pc = "done", !.response = Http(500),
                                           !.faults = q.faults \cup {"db"}]]
        /\ UNCHANGED <<users, records, blobs, tempFiles, clock, rt>>

----------------------------------------------------------------------------
(* routers/admin.py: delete_user. The caller has passed require_admin. *)

ADMIN_ID == "admin"

(* a user document that does not exist *)
NoUser == [exists |-> FALSE, used |-> 0, limit |-> FREE_LIMIT, plan |-> "free", status |-> "active", line_user_id |-> None]

(* config.py lines 37-85: the plan catalog, as far as the handlers read it *)
PLANS ==
    [free |-> [limit |-> FREE_LIMIT], premium |-> [limit |-> 100],
     enterprise |-> [limit |-> 1000], unlimited |-> [limit |-> 99999]]

(* a change of plan that always writes the limit of the free plan *)
PlanLimitOfFree(plan_id) == PLANS["free"].limit

(* update_user_subscription lines 134 and 139: plan["limit"] *)
PlanLimit(plan_id) == PLANS[plan_id].limit

(* update_user_subscription lines 126-143: 400 for a plan id that is not in *)
(* the catalog; one update() of plan, limit and status, which raises when   *)
(* the user document does not exist                                         *)
UpdateUserSubscription(r, targets, plans) ==
    /\ req[r].pc = "idle"
    /\ \E user_id \in targets, plan_id \in plans :
        LET q0 == [Idle EXCEPT !.op = "plan", !.u = user_id, !.plan = plan_id, !.pc = "done"]
        IN  IF plan_id \notin DOMAIN PLANS
            THEN /\ req' = [req EXCEPT ![r] = [q0 EXCEPT !.response = Http(400)]]
                 /\ users' = users
            ELSE IF ~users[user_id].exists
            THEN /\ req' = [req EXCEPT ![r] = [q0 EXCEPT !.response = Http(500)]]
                 /\ users' = users
            ELSE /\ req' = [req EXCEPT ![r] = [q0 EXCEPT !.response = Http(200)]]
                 /\ users' = [users EXCEPT ![user_id].plan = plan_id,
                                           ![user_id].limit = PlanLimit(plan_id),
                                           ![user_id].status = "active"]
    /\ UNCHANGED <<records, blobs, tempFiles, clock, rt, tokens>>

(* the ids of a set of records in the order the stream returns them *)
RECURSIVE StreamOrder(_)
StreamOrder(ds) ==
    IF ds = {} THEN <<>>
    ELSE LET d == CHOOSE x \in ds : \A y \in ds : x.id <= y.id
         IN  <<d.id>> \o StreamOrder(ds \ {d})

(* delete_user line 119: record.reference.delete() removes the document, *)
(* the bucket is not touched                                             *)
BlobsAfterUserRecord(bs, d) == bs

(* delete_user lines 109-117: the admin account is refused, the user *)
(* document is read, the records subcollection is queried            *)
StartDeleteUser(r, targets) ==
    /\ req[r].pc = "idle"
    /\ \E user_id \in targets :
        LET q0 == [Idle EXCEPT !.op = "delete_user", !.u = user_id]
        IN  req' = [req EXCEPT ![r] =
                IF user_id = ADMIN_ID
                THEN [q0 EXCEPT !.pc = "done", !.response = Http(403)]
                ELSE IF ~users[user_id].exists
                THEN [q0 EXCEPT !.pc = "done", !.response = Http(404)]
                ELSE [q0 EXCEPT !.pc = "du_records",
                                !.usedAtStart = users[user_id].used,
                                !.seen = RecordsOf(user_id),
                                !.record_ids = StreamOrder(RecordsOf(user_id)),
                                !.idx = 1]]
    /\ UNCHANGED <<users, records, blobs, tempFiles, clock, rt, tokens>>

(* delete_user lines 118-119: one turn of the loop over the stream *)
DeleteUserRecord(r) ==
    LET q == req[r]
    IN  /\ q.op = "delete_user" /\ q.pc = "du_records"
        /\ q.idx <= Len(q.record_ids)
        /\ records' = DeleteDoc(records, q.u, q.record_ids[q.idx])
        /\ blobs' = BlobsAfterUserRecord(blobs,
                        CHOOSE d \in q.seen : d.id = q.record_ids[q.idx])
        /\ req' = [req EXCEPT ![r].idx = q.idx + 1]
        /\ UNCHANGED <<users, tempFiles, clock, rt, tokens>>

(* delete_user lines 121-124: the user document is deleted *)
DeleteUserDoc(r) ==
    LET q == req[r]
    IN  /\ q.op = "delete_user" /\ q.pc = "du_records"
        /\ q.idx > Len(q.record_ids)
        /\ users' = [users EXCEPT ![q.u] = NoUser]
        /\ req' = [req EXCEPT ![r].pc = "done", ![r].response = Http(200)]
        /\ UNCHANGED <<records, blobs, tempFiles, clock, rt, tokens>>

----------------------------------------------------------------------------
(* services/gemini_service.py: analyze_with_gemini_retry, attempt by attempt. *)
(* errs and waits record the error of every failed attempt and every          *)
(* time.sleep(wait_time) of the except clause, in order.                      *)

RtIdle ==
    [pc |-> "idle", max_retries |-> 0, attempt |-> 0, polls |-> 0,
     errs |-> <<>>, waits |-> <<>>, result |-> None, error |-> None]

AttemptErrors == {"upstream", "empty", "badjson"}

(* the wait before the next attempt: wait_time = 2 ** attempt (line 43) *)
WaitTimeLinear(attempt) == attempt + 1

WaitTime(attempt) == Pow2(attempt)

(* the test of line 42: is there another attempt after this failure? *)
HasNextAttemptOffByOne(attempt, max_retries) == attempt < max_retries

HasNextAttempt(attempt, max_retries) == attempt < max_retries - 1

(* a client that starts over after every failure *)
AttemptFailedStartsOver(c, err) ==
    [c EXCEPT !.attempt = 0, !.polls = 0, !.pc = "loop"]

(* lines 39-47: the except clause of one attempt *)
AttemptFailed(c, err) ==
    LET errs == Append(c.errs, err)
    IN  IF HasNextAttempt(c.attempt, c.max_retries)
        THEN [c EXCEPT !.errs = errs,
                       !.waits = Append(c.waits, WaitTime(c.attempt)),
                       !.attempt = c.attempt + 1, !.polls = 0, !.pc = "loop"]
        ELSE [c EXCEPT !.errs = errs, !.pc = "raised", !.error = err]

(* line 16: for attempt in range(max_retries); a loop that ends without *)
(* return or raise falls off the function, which then returns None      *)
RetryLoop ==
    /\ rt.pc = "loop"
    /\ rt' = IF rt.attempt < rt.max_retries
             THEN [rt EXCEPT !.pc = "upload"]
             ELSE [rt EXCEPT !.pc = "returned", !.result = None]
    /\ UNCHANGED pipeVars

(* line 21: genai.upload_file *)
RetryUpload ==
    /\ rt.pc = "upload"
    /\ \/ \E st \in {"PROCESSING", "ACTIVE"} :
            rt' = [rt EXCEPT !.pc = IF st = "PROCESSING" THEN "poll" ELSE "generate"]
       \/ rt' = AttemptFailed(rt, "upstream")
    /\ UNCHANGED pipeVars

(* lines 24-26: while state is PROCESSING: sleep(1), genai.get_file *)
RetryPoll ==
    /\ rt.pc = "poll"
    /\ \/ /\ rt.polls < MaxPolls
          /\ rt' = [rt EXCEPT !.polls = rt.polls + 1]
       \/ rt' = [rt EXCEPT !.pc = "generate"]
       \/ rt' = AttemptFailed(rt, "upstream")
    /\ UNCHANGED pipeVars

(* lines 29-38: generate_content, empty-response check, json.loads, return *)
RetryGenerate ==
    /\ rt.pc = "generate"
    /\ \/ rt' = [rt EXCEPT !.pc = "returned", !.result = "data_list"]
       \/ \E err \in AttemptErrors : rt' = AttemptFailed(rt, err)
    /\ UNCHANGED pipeVars

InitRetry ==
    /\ users = [u \in Users |->
                    [exists |-> TRUE, used |-> 0, limit |-> FREE_LIMIT, plan |-> "free", status |-> "active", line_user_id |-> None]]
    /\ records = {}
    /\ blobs = {}
    /\ tempFiles = {}
    /\ clock = 0
    /\ req = [r \in Reqs |-> Idle]
    /\ \E m \in -1..MaxRetriesArg : rt = [RtIdle EXCEPT !.pc = "loop", !.max_retries = m]
    /\ tokens = NoTokens

NextRetry ==
    \/ RetryLoop
    \/ RetryUpload
    \/ RetryPoll
    \/ RetryGenerate

SpecRetry == InitRetry /\ [][NextRetry]_vars

(* lines 24-26 have no bound of their own: the number of polls is kept *)
(* up to MaxPolls and starts again from 0 after that                   *)
RetryPollAgain ==
    /\ rt.pc = "poll" /\ rt.polls = MaxPolls
    /\ rt' = [rt EXCEPT !.polls = 0]
    /\ UNCHANGED pipeVars

(* line 24: the service reports a state other than PROCESSING, or the *)
(* poll raises                                                         *)
PollEnds == RetryPoll /\ rt'.pc # "poll"

NextRetryLive ==
    \/ NextRetry
    \/ RetryPollAgain

(* the function keeps running (no step of it blocks but the calls to   *)
(* the service), and on each attempt the service eventually reports a  *)
(* state other than PROCESSING                                         *)
SpecRetryLive ==
    InitRetry /\ [][NextRetryLive]_vars /\ WF_vars(NextRetryLive) /\ WF_vars(PollEnds)

(* the function keeps running, the service may report PROCESSING for ever *)
SpecRetryPollsForever ==
    InitRetry /\ [][NextRetryLive]_vars /\ WF_vars(NextRetryLive)

----------------------------------------------------------------------------
(* Initial states: one registered user near the quota, with two records  *)
(* ingested earlier, and one account that was deleted                    *)

InitUsed == {9, 10}

OldJpg ==
    [owner |-> "u1", id |-> -2,
     image_url |-> GcsUrl([dir |-> "receipts", sec |-> NoTime, t |-> -2, ext |-> ".jpg", page |-> 0]),
     is_pdf |-> FALSE, pdf_images |-> <<>>, original_filename |-> "a.jpg", source |-> "web",
     date |-> ITEM_DATE, vendor_name |-> ITEM_VENDOR, total_amount |-> ITEM_AMOUNT,
     category |-> DEFAULT_CATEGORY]

OldPdf ==
    [owner |-> "u1", id |-> -1,
     image_url |-> GcsUrl([dir |-> "receipts", sec |-> NoTime, t |-> -1, ext |-> ".pdf", page |-> 0]),
     is_pdf |-> TRUE,
     pdf_images |-> <<GcsUrl([dir |-> "pdf_images", sec |-> -1, t |-> -1, ext |-> ".jpg", page |-> 1])>>,
     original_filename |-> "b.pdf", source |-> "web",
     date |-> ITEM_DATE, vendor_name |-> ITEM_VENDOR, total_amount |-> ITEM_AMOUNT,
     category |-> DEFAULT_CATEGORY]

BlobsOf(d) == {d.image_url.key} \cup {d.pdf_images[i].key : i \in 1..Len(d.pdf_images)}

Init ==
    /\ \E n \in InitUsed :
        users = [u \in Users |->
                    IF u = "u1"
                    THEN [exists |-> TRUE, used |-> n, limit |-> FREE_LIMIT, plan |-> "free", status |-> "active", line_user_id |-> "L1"]
                    ELSE [exists |-> FALSE, used |-> 0, limit |-> FREE_LIMIT, plan |-> "free", status |-> "active", line_user_id |-> None]]
    /\ records = {OldJpg, OldPdf}
    /\ blobs = BlobsOf(OldJpg) \cup BlobsOf(OldPdf)
    /\ tempFiles = {}
    /\ clock = 0
    /\ req = [r \in Reqs |-> Idle]
    /\ rt = RtIdle
    /\ tokens = NoTokens

(* Specification of the ingestion pipeline: one upload or one chat image, *)
(* every call to a collaborator may fail                                  *)

(* the batches of one upload: up to MaxFiles files, the empty batch included *)
UploadBatches == SeqsUpTo(FileNames, MaxFiles)

(* what the extraction of one file returns, its failure included *)
ExtractResults == ExtractShapes \cup {ExtractionFailed}

(* an extracted item is a dict or something else *)
ItemKinds == {"dict", "bad"}

Next ==
    \/ StartUpload("r1", Users, UploadBatches)
    \/ StartLineImage("r1")
    \/ SaveFile("r1", Faulty)
    \/ UploadBlob("r1", Faulty, Reliable)
    \/ Extract("r1", ExtractResults)
    \/ GenDocId("r1")
    \/ SetRecord("r1", ItemKinds, Faulty)
    \/ IncrementUsage("r1", Faulty)
    \/ RemoveTemp("r1", Faulty)

Spec == Init /\ [][Next]_vars

(* Specification of the quota ledger and the record store: one request   *)
(* (upload, delete or bulk delete); uploads fail only in the extraction, *)
(* deletions may fail in the bucket and in Firestore                     *)

RecordIdInputs == {-2, -1, 0}

(* batches of up to MaxBatch images *)
JpgBatches == SeqsUpTo({"a.jpg"}, MaxBatch)

(* the id lists of one bulk deletion *)
RecordIdLists == SeqsUpTo(RecordIdInputs, MaxIds)

(* every extracted item is a dict *)
DictItems == {"dict"}

NextLedger ==
    \/ StartUpload("r1", Users, JpgBatches)
    \/ SaveFile("r1", Reliable)
    \/ UploadBlob("r1", Reliable, Reliable)
    \/ Extract("r1", ExtractResults)
    \/ GenDocId("r1")
    \/ SetRecord("r1", DictItems, Reliable)
    \/ IncrementUsage("r1", Reliable)
    \/ RemoveTemp("r1", Reliable)
    \/ StartDelete("r1", Users, RecordIdInputs)
    \/ DeleteRecordDoc("r1", Faulty, Faulty)
    \/ DecrementUsage("r1", Faulty)
    \/ StartBulkDelete("r1", Users, RecordIdLists)
    \/ BulkGet("r1", Faulty)
    \/ BulkDeleteDoc("r1", Faulty, Faulty)
    \/ BulkFinish("r1", Faulty)

SpecLedger == Init /\ [][NextLedger]_vars

(* Specification of the deletions: one delete or bulk-delete request on a *)
(* store that also holds a record migrated from the legacy collection,    *)
(* which has no image_url; the bucket and Firestore may fail              *)

OldLegacy ==
    [owner |-> "u1", id |-> -3, image_url |-> NoUrl, is_pdf |-> FALSE,
     pdf_images |-> <<>>, original_filename |-> None, source |-> None,
     date |-> ITEM_DATE, vendor_name |-> ITEM_VENDOR, total_amount |-> ITEM_AMOUNT,
     category |-> None]

DeleteIdInputs == {-3, -2, -1, 0}

InitDelete ==
    /\ \E n \in InitUsed :
        users = [u \in Users |->
                    IF u = "u1"
                    THEN [exists |-> TRUE, used |-> n, limit |-> FREE_LIMIT, plan |-> "free", status |-> "active", line_user_id |-> "L1"]
                    ELSE [exists |-> FALSE, used |-> 0, limit |-> FREE_LIMIT, plan |-> "free", status |-> "active", line_user_id |-> None]]
    /\ records = {OldJpg, OldPdf, OldLegacy}
    /\ blobs = BlobsOf(OldJpg) \cup BlobsOf(OldPdf)
    /\ tempFiles = {}
    /\ clock = 0
    /\ req = [r \in Reqs |-> Idle]
    /\ rt = RtIdle
    /\ tokens = NoTokens

(* the id lists of one bulk deletion *)
DeleteIdLists == SeqsUpTo(DeleteIdInputs, MaxIds)

NextDelete ==
    \/ StartDelete("r1", Users, DeleteIdInputs)
    \/ DeleteRecordDoc("r1", Faulty, Faulty)
    \/ DecrementUsage("r1", Faulty)
    \/ StartBulkDelete("r1", Users, DeleteIdLists)
    \/ BulkGet("r1", Faulty)
    \/ BulkDeleteDoc("r1", Faulty, Faulty)
    \/ BulkFinish("r1", Faulty)

SpecDelete == InitDelete /\ [][NextDelete]_vars

(* Concurrent requests of one user. The handlers are served by several     *)
(* processes (instances) that share Firestore, the bucket and the clock;   *)
(* a step of one request may fall between any two steps of the other.      *)
(* The user is one unit below the limit.                                   *)

ConcUsed == FREE_LIMIT - 1

ConcIds == {-2, -1}

InitConc ==
    /\ users = [u \in Users |->
                    IF u = "u1"
                    THEN [exists |-> TRUE, used |-> ConcUsed, limit |-> FREE_LIMIT, plan |-> "free", status |-> "active",
                          line_user_id |-> "L1"]
                    ELSE [exists |-> FALSE, used |-> 0, limit |-> FREE_LIMIT, plan |-> "free", status |-> "active",
                          line_user_id |-> None]]
    /\ records = {OldJpg, OldPdf}
    /\ blobs = BlobsOf(OldJpg) \cup BlobsOf(OldPdf)
    /\ tempFiles = {}
    /\ clock = 0
    /\ req = [r \in Reqs |-> Idle]
    /\ rt = RtIdle
    /\ tokens = NoTokens

(* the id lists of one concurrent bulk deletion *)
ConcIdLists == SeqsUpTo(ConcIds, MaxConcIds)

(* requests of the one user u1 *)
FirstUser == {"u1"}

(* two deletions (single or bulk) of the same user at the same time *)
NextConcDelete ==
    \E r \in Reqs :
        \/ StartDelete(r, FirstUser, ConcIds)
        \/ DeleteRecordDoc(r, Reliable, Reliable)
        \/ DecrementUsage(r, Reliable)
        \/ StartBulkDelete(r, FirstUser, ConcIdLists)
        \/ BulkGet(r, Reliable)
        \/ BulkDeleteDoc(r, Reliable, Reliable)
        \/ BulkFinish(r, Reliable)

SpecConcDelete == InitConc /\ [][NextConcDelete]_vars

(* two requests of the same user at the same time: uploads of up to        *)
(* MaxConcFiles files, chat images and single deletions. No collaborator   *)
(* fails by itself; the extraction returns no receipt, one receipt, or     *)
(* raises.                                                                 *)
ConcShapes == {d \in ExtractShapes : d.isList /\ d.n <= 1} \cup {ExtractionFailed}

(* the batches of one concurrent upload *)
ConcBatches == SeqsUpTo({"a.jpg"}, MaxConcFiles)

NextConc ==
    \E r \in Reqs :
        \/ StartUpload(r, FirstUser, ConcBatches)
        \/ StartLineImage(r)
        \/ SaveFile(r, Reliable)
        \/ UploadBlob(r, Reliable, Reliable)
        \/ Extract(r, ConcShapes)
        \/ GenDocId(r)
        \/ SetRecord(r, DictItems, Reliable)
        \/ IncrementUsage(r, Reliable)
        \/ RemoveTemp(r, Reliable)
        \/ StartDelete(r, FirstUser, ConcIds)
        \/ DeleteRecordDoc(r, Reliable, Reliable)
        \/ DecrementUsage(r, Reliable)

SpecConc == InitConc /\ [][NextConc]_vars

(* An administrator deletes an account: one upload of the user and, when *)
(* it has returned, delete_user on any account                           *)

UserIdInputs == Users \cup {ADMIN_ID}

NextAdmin ==
    \/ StartUpload("r1", Users, UploadBatches)
    \/ SaveFile("r1", Reliable)
    \/ UploadBlob("r1", Reliable, Reliable)
    \/ Extract("r1", ExtractResults)
    \/ GenDocId("r1")
    \/ SetRecord("r1", DictItems, Reliable)
    \/ IncrementUsage("r1", Reliable)
    \/ RemoveTemp("r1", Reliable)
    \/ (req["r1"].pc = "done" /\ StartDeleteUser("r2", UserIdInputs))
    \/ DeleteUserRecord("r2")
    \/ DeleteUserDoc("r2")

SpecAdmin == InitDelete /\ [][NextAdmin]_vars

(* delete_user beside an ingestion of the same user: the two requests are *)
(* served at the same time                                                *)
NextConcAdmin ==
    \/ StartUpload("r1", FirstUser, ConcBatches)
    \/ StartLineImage("r1")
    \/ SaveFile("r1", Reliable)
    \/ UploadBlob("r1", Reliable, Reliable)
    \/ Extract("r1", ExtractResults)
    \/ GenDocId("r1")
    \/ SetRecord("r1", DictItems, Reliable)
    \/ IncrementUsage("r1", Reliable)
    \/ RemoveTemp("r1", Reliable)
    \/ StartDeleteUser("r2", FirstUser)
    \/ DeleteUserRecord("r2")
    \/ DeleteUserDoc("r2")

SpecConcAdmin == InitConc /\ [][NextConcAdmin]_vars

(* Edits of records: one update_record request, which may then be sent *)
(* once more unchanged; Firestore may fail                              *)

AmountChars == {"¥", ",", "1", " ", "-", "x"}

YEN_1234 == <<"¥", "1", ",", "2", "3", "4">>

AmountStrings == SeqsUpTo(AmountChars, MaxAmountLen) \cup {YEN_1234}

AmountValues ==
    {[kind |-> "str", s |-> s, n |-> 0] : s \in AmountStrings}
    \cup {[kind |-> "int", s |-> <<>>, n |-> n] : n \in {-5, 0, ITEM_AMOUNT}}
    \cup {[kind |-> "null", s |-> <<>>, n |-> 0]}

NEW_DATE == "2026-02-02"
NEW_VENDOR == "cafe"
NEW_CATEGORY == "food"
OTHER_URL == GcsUrl([dir |-> "receipts", sec |-> NoTime, t |-> -2, ext |-> ".jpg", page |-> 0])

(* request bodies of update_record: the four editable keys and a key the *)
(* handler does not know                                                 *)
EditBodies ==
    {[k \in EditKeys \cup {"image_url"} |->
        CASE k = "date" -> dt
          [] k = "vendor_name" -> vn
          [] k = "total_amount" -> am
          [] k = "category" -> ct
          [] OTHER -> iu] :
        dt \in {Absent, NEW_DATE}, vn \in {Absent, NEW_VENDOR},
        am \in AmountValues \cup {AbsentAmount},
        ct \in {Absent, NEW_CATEGORY}, iu \in {NoUrl, OTHER_URL}}

(* update_fields of bulk_update_records *)
BulkFieldSets ==
    {[k \in BulkKeys \cup {"vendor_name"} |->
        CASE k = "category" -> ct
          [] k = "date" -> dt
          [] OTHER -> vn] :
        ct \in {Absent, "", NEW_CATEGORY}, dt \in {Absent, "", NEW_DATE},
        vn \in {Absent, NEW_VENDOR}}

EditIdInputs == {-1, 0}

BulkEditIdInputs == {-3, -1, 0}

NextEdit ==
    \/ StartUpdate("r1", Users, EditIdInputs, EditBodies)
    \/ WriteUpdate("r1", Faulty)
    \/ (/\ req["r1"].op = "update" /\ req["r1"].pc = "done"
        /\ StartUpdate("r2", {req["r1"].u}, {req["r1"].record_ids[1]}, {req["r1"].data}))
    \/ WriteUpdate("r2", Faulty)

SpecEdit == InitDelete /\ [][NextEdit]_vars

(* the id lists of one bulk update *)
BulkEditIdLists == SeqsUpTo(BulkEditIdInputs, MaxIds)

(* one bulk_update_records request *)
NextBulkEdit ==
    \/ StartBulkUpdate("r1", Users, BulkEditIdLists, BulkFieldSets)
    \/ BulkUpdateOne("r1", Faulty)

SpecBulkEdit == InitDelete /\ [][NextBulkEdit]_vars

(* one request of either kind *)
NextEditAll == NextEdit \/ NextBulkEdit

SpecEditAll == InitDelete /\ [][NextEditAll]_vars

(* Link tokens: token generations and redemptions of chat users, two *)
(* requests at a time                                                *)

TextInputs == TokenIds \cup {"hello"}

(* the answer has been sent: the worker takes the next request *)
NextRequest(r) ==
    /\ req[r].pc = "done"
    /\ req' = [req EXCEPT ![r] = Idle]
    /\ UNCHANGED <<users, records, blobs, tempFiles, clock, rt, tokens>>

NextLink ==
    \E r \in Reqs :
        \/ DeleteOldTokens(r, FirstUser)
        \/ SetNewToken(r)
        \/ StartRedeem(r, LineIds, TextInputs)
        \/ BindLineUser(r, Reliable)
        \/ MarkTokenUsed(r, Reliable)
        \/ NextRequest(r)

SpecLink == InitConc /\ [][NextLink]_vars

(* A newly registered user: one upload of up to MaxFiles files and, when it *)
(* has returned, deletions of the records the user then has; the bucket may *)
(* fail during a deletion                                                   *)

InitFresh ==
    /\ users = [u \in Users |->
                    IF u = "u1"
                    THEN [exists |-> TRUE, used |-> 0, limit |-> FREE_LIMIT, plan |-> "free", status |-> "active", line_user_id |-> None]
                    ELSE [exists |-> FALSE, used |-> 0, limit |-> FREE_LIMIT, plan |-> "free", status |-> "active", line_user_id |-> None]]
    /\ records = {}
    /\ blobs = {}
    /\ tempFiles = {}
    /\ clock = 0
    /\ req = [r \in Reqs |-> Idle]
    /\ rt = RtIdle
    /\ tokens = NoTokens

(* the ids of the records the user sees in the list *)
ListedIds(u) == {d.id : d \in RecordsOf(u)}

(* batches of up to MaxFiles images *)
JpgUploads == SeqsUpTo({"a.jpg"}, MaxFiles)

NextFresh ==
    \/ StartUpload("r1", FirstUser, JpgUploads)
    \/ SaveFile("r1", Reliable)
    \/ UploadBlob("r1", Reliable, Reliable)
    \/ Extract("r1", ExtractResults)
    \/ GenDocId("r1")
    \/ SetRecord("r1", DictItems, Reliable)
    \/ IncrementUsage("r1", Reliable)
    \/ RemoveTemp("r1", Reliable)
    \/ (req["r1"].pc = "done" /\ StartDelete("r2", FirstUser, ListedIds("u1")))
    \/ DeleteRecordDoc("r2", Faulty, Reliable)
    \/ DecrementUsage("r2", Reliable)
    \/ (req["r1"].pc = "done"
        /\ StartBulkDelete("r2", FirstUser, SeqsUpTo(ListedIds("u1"), MaxIds)))
    \/ BulkGet("r2", Reliable)
    \/ BulkDeleteDoc("r2", Faulty, Reliable)
    \/ BulkFinish("r2", Reliable)

SpecFresh == InitFresh /\ [][NextFresh]_vars

(* Two registered users with records of their own; one record id exists  *)
(* under both users, one only under u2. One record request of either     *)
(* user, which names any of these ids.                                   *)

OtherPdf == [OldPdf EXCEPT !.owner = "u2"]

OtherJpg ==
    [OldJpg EXCEPT !.owner = "u2", !.id = -4,
        !.image_url = GcsUrl([dir |-> "receipts", sec |-> NoTime, t |-> -4, ext |-> ".jpg", page |-> 0])]

InitTenants ==
    /\ \E n \in InitUsed :
        users = [u \in Users |->
                    IF u = "u1"
                    THEN [exists |-> TRUE, used |-> n, limit |-> FREE_LIMIT, plan |-> "free", status |-> "active", line_user_id |-> "L1"]
                    ELSE [exists |-> TRUE, used |-> 2, limit |-> FREE_LIMIT, plan |-> "free", status |-> "active", line_user_id |-> None]]
    /\ records = {OldJpg, OldPdf, OtherPdf, OtherJpg}
    /\ blobs = BlobsOf(OldJpg) \cup BlobsOf(OldPdf) \cup BlobsOf(OtherJpg)
    /\ tempFiles = {}
    /\ clock = 0
    /\ req = [r \in Reqs |-> Idle]
    /\ rt = RtIdle
    /\ tokens = NoTokens

TenantIdInputs == {-4, -2, -1}

(* the id lists of one bulk request of a tenant *)
TenantIdLists == SeqsUpTo(TenantIdInputs, MaxIds)

(* the empty batch and the batch of one image *)
OneJpgBatches == SeqsUpTo({"a.jpg"}, 1)

NextTenants ==
    \/ StartUpload("r1", Users, OneJpgBatches)
    \/ SaveFile("r1", Reliable)
    \/ UploadBlob("r1", Reliable, Reliable)
    \/ Extract("r1", ExtractShapes)
    \/ GenDocId("r1")
    \/ SetRecord("r1", DictItems, Reliable)
    \/ IncrementUsage("r1", Reliable)
    \/ RemoveTemp("r1", Reliable)
    \/ StartUpdate("r1", Users, TenantIdInputs, EditBodies)
    \/ WriteUpdate("r1", Reliable)
    \/ StartDelete("r1", Users, TenantIdInputs)
    \/ DeleteRecordDoc("r1", Reliable, Reliable)
    \/ DecrementUsage("r1", Reliable)
    \/ StartBulkDelete("r1", Users, TenantIdLists)
    \/ BulkGet("r1", Reliable)
    \/ BulkDeleteDoc("r1", Reliable, Reliable)
    \/ BulkFinish("r1", Reliable)
    \/ StartBulkUpdate("r1", Users, TenantIdLists, BulkFieldSets)
    \/ BulkUpdateOne("r1", Reliable)

SpecTenants == InitTenants /\ [][NextTenants]_vars

(* Link tokens of two registered users, u1 linked to the chat identity L1: *)
(* either user generates tokens, any chat identity sends them.             *)

NextLinkUsers ==
    \E r \in Reqs :
        \/ DeleteOldTokens(r, Users)
        \/ SetNewToken(r)
        \/ StartRedeem(r, LineIds, TextInputs)
        \/ BindLineUser(r, Reliable)
        \/ MarkTokenUsed(r, Reliable)
        \/ NextRequest(r)

SpecLinkUsers == InitTenants /\ [][NextLinkUsers]_vars

(* One upload or chat image in which only the preprocessing can fail: the *)
(* compression of an image, the rasterization of a PDF.                   *)

NextPreprocess ==
    \/ StartUpload("r1", FirstUser, UploadBatches)
    \/ StartLineImage("r1")
    \/ SaveFile("r1", Reliable)
    \/ UploadBlob("r1", Reliable, Faulty)
    \/ Extract("r1", ExtractShapes)
    \/ GenDocId("r1")
    \/ SetRecord("r1", DictItems, Reliable)
    \/ IncrementUsage("r1", Reliable)
    \/ RemoveTemp("r1", Reliable)

SpecPreprocess == Init /\ [][NextPreprocess]_vars

(* A user on the premium plan near the free plan's limit: the admin *)
(* changes a user's plan, then the user uploads a batch.            *)

PlanUsed == {9, 10, 11}

PlanInputs == DOMAIN PLANS \cup {"gold", None}

InitPlans ==
    /\ \E n \in PlanUsed :
        users = [u \in Users |->
                    IF u = "u1"
                    THEN [exists |-> TRUE, used |-> n, limit |-> PLANS["premium"].limit,
                          plan |-> "premium", status |-> "active", line_user_id |-> "L1"]
                    ELSE NoUser]
    /\ records = {OldJpg, OldPdf}
    /\ blobs = BlobsOf(OldJpg) \cup BlobsOf(OldPdf)
    /\ tempFiles = {}
    /\ clock = 0
    /\ req = [r \in Reqs |-> Idle]
    /\ rt = RtIdle
    /\ tokens = NoTokens

NextPlans ==
    \/ UpdateUserSubscription("r2", Users, PlanInputs)
    \/ (req["r2"].pc = "done"
        /\ StartUpload("r1", FirstUser, JpgUploads))
    \/ SaveFile("r1", Reliable)
    \/ UploadBlob("r1", Reliable, Reliable)
    \/ Extract("r1", ExtractShapes)
    \/ GenDocId("r1")
    \/ SetRecord("r1", DictItems, Reliable)
    \/ IncrementUsage("r1", Reliable)
    \/ RemoveTemp("r1", Reliable)

SpecPlans == InitPlans /\ [][NextPlans]_vars

(* One upload of a newly registered user for which the extraction writes *)
(* the year of the date with four digits or with two.                    *)

TWO_DIGIT_DATE == "25-03-01"

DatedShapes ==
    ExtractShapes \cup {[d EXCEPT !.date = TWO_DIGIT_DATE] : d \in ExtractShapes}

(* the dated extraction results, the failed extraction included *)
DatedResults == DatedShapes \cup {ExtractionFailed}

NextDates ==
    \/ StartUpload("r1", FirstUser, UploadBatches)
    \/ SaveFile("r1", Reliable)
    \/ UploadBlob("r1", Reliable, Reliable)
    \/ Extract("r1", DatedResults)
    \/ GenDocId("r1")
    \/ SetRecord("r1", DictItems, Faulty)
    \/ IncrementUsage("r1", Reliable)
    \/ RemoveTemp("r1", Reliable)

SpecDates == InitFresh /\ [][NextDates]_vars

(* One upload whose files decide the outcome of their extraction: a     *)
(* receipt, a PDF for which a single object comes back, an image the    *)
(* extraction fails on and an image without any receipt. The other      *)
(* collaborators do not fail.                                           *)

OrderFiles == {"a.jpg", "b.pdf", "blurred.jpg", "blank.jpg"}

ExtractionOf(name) ==
    CASE name = "a.jpg" -> [raised |-> FALSE, isList |-> TRUE, n |-> 1, date |-> ITEM_DATE]
      [] name = "b.pdf" -> [raised |-> FALSE, isList |-> FALSE, n |-> 1, date |-> ITEM_DATE]
      [] name = "blurred.jpg" -> ExtractionFailed
      [] OTHER -> [raised |-> FALSE, isList |-> TRUE, n |-> 0, date |-> ITEM_DATE]

(* the batches of up to MaxBatch of the four files *)
OrderBatches == SeqsUpTo(OrderFiles, MaxBatch)

NextOrder ==
    \/ StartUpload("r1", FirstUser, OrderBatches)
    \/ SaveFile("r1", Reliable)
    \/ UploadBlob("r1", Reliable, Reliable)
    \/ (req["r1"].pc = "extract"
        /\ Extract("r1", {ExtractionOf(req["r1"].files[req["r1"].idx])}))
    \/ GenDocId("r1")
    \/ SetRecord("r1", DictItems, Reliable)
    \/ IncrementUsage("r1", Reliable)
    \/ RemoveTemp("r1", Reliable)

SpecOrder == InitFresh /\ [][NextOrder]_vars

----------------------------------------------------------------------------
(* Properties *)

Returned(q) == q.pc = "done" /\ q.response.code = 200

Admitted(q) == q.op = "upload" /\ q.pc # "idle" /\ q.response.code \notin {400, 403}

OnlyExtractionFailed(q) ==
    \A i \in 1..Len(q.all_results) :
        q.all_results[i].status = "error" => q.all_results[i].error = "extraction"

(* the primary temporary files (not the page images of a PDF) in UPLOAD_DIR *)
PrimaryTemps == {f \in tempFiles : f.page = 0}

(* files of the running batch that went through the increment *)
Charged(q) ==
    Cardinality({i \in 1..Len(q.all_results) :
                    q.all_results[i].status = "success" \/ q.all_results[i].error = "remove"})
    + (IF q.pc = "remove" THEN 1 ELSE 0)

(* C1: when a batch of N files returns and M of its files failed in the      *)
(* extraction while no other step failed, the response counts N-M successes  *)
(* and M errors and used has grown by exactly N-M.                           *)
C1_BatchCounts ==
    \A r \in Reqs :
        LET q == req[r]
            N == Len(q.files)
            M == CountError(q.all_results, "extraction")
        IN  (q.op = "upload" /\ Returned(q) /\ OnlyExtractionFailed(q))
            => /\ CountStatus(q.all_results, "success") = N - M
               /\ CountStatus(q.all_results, "error") = M
               /\ q.response.success = N - M
               /\ q.response.errors = M
               /\ users[q.u].used = q.usedAtStart + (N - M)

C1_Witness ==
    \E r \in Reqs :
        /\ req[r].op = "upload" /\ Returned(req[r]) /\ OnlyExtractionFailed(req[r])
        /\ Len(req[r].files) = 2
        /\ CountError(req[r].all_results, "extraction") = 1
        /\ users[req[r].u].used = req[r].usedAtStart + 1

(* C2: a non-empty batch submitted while used >= limit is answered 403 at    *)
(* once: no file is processed (no entry, no temp file, no blob, no record)   *)
(* and used is unchanged; a rejected request does nothing afterwards.        *)
C2_QuotaGateRejects ==
    [][\A r \in Reqs :
        /\ ( /\ req[r].pc = "idle" /\ req'[r].op = "upload"
             /\ Len(req'[r].files) > 0
             /\ users[req'[r].u].used >= users[req'[r].u].limit )
           => /\ req'[r].pc = "done" /\ req'[r].response.code = 403
              /\ req'[r].all_results = <<>>
              /\ UNCHANGED <<users, records, blobs, tempFiles>>
        /\ (req[r].op = "upload" /\ req[r].response.code = 403)
           => /\ req'[r] = req[r]
              /\ UNCHANGED <<users, records, blobs, tempFiles>>]_vars

C2_Witness ==
    \E r \in Reqs :
        /\ req[r].op = "upload" /\ req[r].response.code = 403
        /\ Len(req[r].files) = 3
        /\ users[req[r].u].exists
        /\ users[req[r].u].used = 10 /\ users[req[r].u].limit = 10

(* C3: the quota gate lets a request in iff its user exists and used < limit *)
(* (the gate is check_usage_limit); a step that increments used never turns  *)
(* a failing check into a passing one, a step that decrements used never     *)
(* turns a passing check into a failing one.                                 *)
C3_CheckUsageLimit ==
    [][/\ \A r \in Reqs :
            (req[r].pc = "idle" /\ req'[r].op = "upload" /\ Len(req'[r].files) > 0)
            => LET u == req'[r].u
               IN  (req'[r].response.code # 403)
                   <=> (users[u].exists /\ users[u].used < users[u].limit)
       /\ \A u \in Users :
            /\ (users'[u].used > users[u].used /\ users'[u].exists)
               => (check_usage_limit(u)' => check_usage_limit(u))
            /\ (users'[u].used < users[u].used /\ users'[u].exists)
               => (check_usage_limit(u) => check_usage_limit(u)')]_vars

C3_Witness ==
    \E r \in Reqs :
        /\ req[r].op = "delete" /\ Returned(req[r])
        /\ req[r].usedAtStart = users[req[r].u].limit
        /\ check_usage_limit(req[r].u)

(* C4: the gate is evaluated once per batch: while and after an admitted     *)
(* batch of N files runs alone, used <= limit + N - 1; with limit = 10,      *)
(* used = 9 and 3 files that all succeed, used ends at 12 and the gate is    *)
(* then closed for the next batch.                                           *)
C4_GateOncePerBatch ==
    \A r \in Reqs :
        LET q == req[r]
            N == Len(q.files)
        IN  Admitted(q)
            => /\ q.usedAtStart < users[q.u].limit
               /\ users[q.u].used <= users[q.u].limit + N - 1
               /\ ( /\ Returned(q) /\ N = 3 /\ q.response.success = 3
                    /\ q.usedAtStart = 9 /\ users[q.u].limit = 10 )
                  => (users[q.u].used = 12 /\ ~check_usage_limit(q.u))

C4_Witness ==
    \E r \in Reqs :
        /\ Admitted(req[r]) /\ Returned(req[r])
        /\ Len(req[r].files) = 3 /\ req[r].response.success = 3
        /\ req[r].usedAtStart = 9
        /\ users[req[r].u].used = 12

(* C5: used grows by exactly 1 for each file that got past the persistence,  *)
(* whatever the number of items (0, 1 or more), and by nothing for a file    *)
(* whose extraction or record write failed; when a file has been charged,    *)
(* every one of its records is in the record store.                          *)
C5_IncrementPerFileAfterPersist ==
    \A r \in Reqs :
        LET q == req[r]
        IN  (Ingesting(q) /\ q.u # None)
            => /\ users[q.u].used = q.usedAtStart + Charged(q)
               /\ q.pc = "remove"
                  => /\ q.item = q.data_list.n + 1
                     /\ Cardinality({d \in RecordsOf(q.u) : d.image_url = q.public_url})
                            = q.data_list.n

C5_Witness ==
    \E r \in Reqs :
        /\ Ingesting(req[r]) /\ req[r].pc = "remove"
        /\ req[r].data_list.n = 2
        /\ users[req[r].u].used = req[r].usedAtStart + 1

(* C6: a failure of any step of a file becomes that file's error entry and   *)
(* the batch goes on: the handler never answers with an error once admitted, *)
(* the entries are those of the files handled so far in submission order,    *)
(* and the summary has total = success + errors = number of files.           *)
C6_FailuresStayPerFile ==
    \A r \in Reqs :
        LET q == req[r]
        IN  Admitted(q)
            => /\ q.response.code \in {0, 200}
               /\ Len(q.all_results) = (IF q.pc = "done" THEN Len(q.files) ELSE q.idx - 1)
               /\ \A i \in 1..Len(q.all_results) : q.all_results[i].filename = q.files[i]
               /\ q.pc = "done"
                  => /\ q.response.total = Len(q.files)
                     /\ q.response.total = q.response.success + q.response.errors
                     /\ q.response.success = CountStatus(q.all_results, "success")
                     /\ q.response.errors = CountStatus(q.all_results, "error")

C6_Witness ==
    \E r \in Reqs :
        /\ Admitted(req[r]) /\ Returned(req[r])
        /\ Len(req[r].files) = 2
        /\ req[r].all_results[1].status = "error"
        /\ req[r].all_results[1].error = "upload"
        /\ req[r].all_results[2].status = "success"

(* C7: once a request has handled its files, none of the temporary files it *)
(* wrote is left in UPLOAD_DIR, whether a file ended as success or as error *)
(* at a step after its temporary file was written.                          *)
C7_TempFileReleased ==
    \A r \in Reqs :
        ( /\ Ingesting(req[r]) /\ req[r].pc = "done"
          /\ CountError(req[r].all_results, "save") = 0
          /\ CountError(req[r].all_results, "remove") = 0 )
        => PrimaryTemps = {}

(* C8: with max_retries >= 1 the client makes at most max_retries attempts,  *)
(* returns the parsed result of the first attempt that succeeds and stops,   *)
(* and raises iff max_retries attempts failed, with the last attempt's error *)
C8_RetryAttempts ==
    rt.max_retries >= 1
    => /\ rt.attempt < rt.max_retries
       /\ Len(rt.errs) <= rt.max_retries
       /\ rt.pc \in {"loop", "upload", "poll", "generate", "returned"}
          => Len(rt.errs) = rt.attempt
       /\ rt.pc = "returned" => (rt.result = "data_list" /\ rt.error = None)
       /\ rt.pc = "raised" <=> Len(rt.errs) = rt.max_retries
       /\ rt.pc = "raised" => (rt.error = rt.errs[rt.max_retries] /\ rt.result = None)

C8_Witness ==
    /\ rt.pc = "raised" /\ rt.max_retries = DEFAULT_MAX_RETRIES
    /\ rt.errs[1] = "upstream" /\ rt.errs[2] = "empty" /\ rt.errs[3] = "badjson"
    /\ rt.error = "badjson"

ExpectedBackoff == <<1, 2, 4, 8, 16, 32>>

C10_BulkDeleteCounts ==
    \A r \in Reqs :
        LET q == req[r]
        IN  (q.op = "bulk_delete" /\ Returned(q))
            => /\ q.response.deleted + q.response.failed = Len(q.record_ids)
               /\ users[q.u].used = q.usedAtStart - q.response.deleted

(* C12: delete_record on an id that has no document under the caller is   *)
(* answered 404, and no blob, no record and no counter is touched.         *)
C12_DeleteMissingIs404 ==
    \A r \in Reqs :
        LET q == req[r]
        IN  (q.op = "delete" /\ q.pc = "done" /\ q.record_data = NoRecord)
            => /\ q.response.code = 404
               /\ q.gcs_deletes = <<>>
               /\ users[q.u].used = q.usedAtStart

(* the calls of delete_from_gcs the deletion of record d has to make *)
ExpectedGcsDeletes(d) ==
    (IF d.image_url.bucket = BUCKET_NAME THEN <<d.image_url>> ELSE <<>>) \o d.pdf_images

(* C13: the step that deletes a record (in delete_record and in            *)
(* bulk_delete_records) calls delete_from_gcs exactly once on the primary  *)
(* image and once on each page image, and not at all for a record without  *)
(* image url; no other step calls it.                                      *)
C13_BlobDeletesPerRecord ==
    [][\A r \in Reqs :
        IF req[r].pc \in {"delete", "bulk_delete"} /\ req'[r] # req[r]
        THEN req'[r].gcs_deletes = req[r].gcs_deletes \o ExpectedGcsDeletes(req[r].record_data)
        ELSE req'[r].gcs_deletes = req[r].gcs_deletes]_vars

C13_Witness ==
    \E r \in Reqs :
        /\ req[r].op = "bulk_delete" /\ Returned(req[r])
        /\ req[r].record_ids = <<-3, -1>>
        /\ req[r].response.deleted = 2
        /\ req[r].gcs_deletes = <<OldPdf.image_url, OldPdf.pdf_images[1]>>

(* C14: when the bucket fails while a record is deleted and Firestore does *)
(* not, the record is removed all the same, the request is answered 200    *)
(* and used is lowered by 1.                                               *)
C14_BlobFailureDoesNotBlock ==
    \A r \in Reqs :
        LET q == req[r]
        IN  (q.op = "delete" /\ "blob" \in q.faults /\ "db" \notin q.faults)
            => /\ q.pc \in {"decrement", "done"}
               /\ ~DocExists(q.u, q.record_ids[1])
               /\ q.pc = "done"
                  => (q.response.code = 200 /\ users[q.u].used = q.usedAtStart - 1)

C14_Witness ==
    \E r \in Reqs :
        /\ req[r].op = "delete" /\ Returned(req[r])
        /\ req[r].record_ids = <<-1>>
        /\ req[r].faults = {"blob"}
        /\ BlobsOf(OldPdf) \subseteq blobs
        /\ ~DocExists("u1", -1)
        /\ users["u1"].used = req[r].usedAtStart - 1

(* no request is running *)
AllQuiet == \A r \in Reqs : req[r].pc \in {"idle", "done"}

(* C11: whatever the interleaving of the deletions of one user, once they  *)
(* are over used has been lowered by the number of records that left the   *)
(* record store.                                                           *)
C11_DecrementOncePerRecord ==
    AllQuiet =>
        ConcUsed - users["u1"].used = Cardinality({OldJpg, OldPdf}) - Cardinality(RecordsOf("u1"))

(* C15: the usage counter of a user is never negative. *)
C15_UsedNeverNegative == \A u \in Users : users[u].used >= 0

(* units taken off the counter by a deletion request *)
Decremented(q) ==
    IF q.pc = "done" /\ q.response.code = 200
    THEN (IF q.op = "delete" THEN 1 ELSE IF q.op = "bulk_delete" THEN q.deleted_count ELSE 0)
    ELSE 0

(* C16: with requests of one user running at the same time, used is always  *)
(* the initial value plus one per file whose increment was issued minus one *)
(* per decrement issued: no adjustment is lost.                             *)
C16_NoLostUpdate ==
    users["u1"].used
        = ConcUsed + Charged(req["r1"]) + Charged(req["r2"])
                   - Decremented(req["r1"]) - Decremented(req["r2"])

(* a deletion that started after the first increment of a running upload *)
(* and returned before the upload's second file was charged              *)
C16_Witness ==
    /\ req["r1"].op = "upload" /\ req["r1"].pc = "incr" /\ req["r1"].idx = 2
    /\ Charged(req["r1"]) = 1
    /\ req["r2"].op = "delete" /\ Returned(req["r2"])
    /\ req["r2"].usedAtStart = ConcUsed + 1
    /\ users["u1"].used = ConcUsed

(* both slots hold upload batches that passed the gate while used = limit - 1 *)
BothAdmittedBelowLimit ==
    \A r \in Reqs :
        /\ Admitted(req[r])
        /\ req[r].usedAtStart = users[req[r].u].limit - 1

AllFilesIngested(q) ==
    /\ Returned(q)
    /\ CountStatus(q.all_results, "success") = Len(q.files)

(* C17: the gate is evaluated once, before the first file, and nothing     *)
(* re-evaluates it at the increment: a batch is admitted exactly when the  *)
(* value it read was below the limit, and when two batches of one user     *)
(* were both admitted at used = limit - 1 and each ingested all its files, *)
(* used ends at limit - 1 + N1 + N2.                                       *)
C17_GateAndIncrementNotAtomic ==
    /\ \A r \in Reqs :
          Admitted(req[r]) => req[r].usedAtStart < users[req[r].u].limit
    /\ (BothAdmittedBelowLimit /\ \A r \in Reqs : AllFilesIngested(req[r]))
          => users["u1"].used
                = users["u1"].limit - 1 + Len(req["r1"].files) + Len(req["r2"].files)

(* two batches, both admitted at 9 of 10 and both committed: used ends *)
(* above limit + N - 1, N the size of the larger batch                 *)
C17_Witness ==
    /\ BothAdmittedBelowLimit
    /\ \A r \in Reqs : AllFilesIngested(req[r])
    /\ users["u1"].used
          > users["u1"].limit + Max(Len(req["r1"].files), Len(req["r2"].files)) - 1

(* C18: every document(doc_id).set(item) of an ingestion creates a record *)
(* under an id no record of that user has: the records that existed are   *)
(* all still there and there is one more.                                 *)
C18_CreationNeverOverwrites ==
    [][\A r \in Reqs :
          (Ingesting(req[r]) /\ req[r].pc = "set" /\ req'[r] # req[r])
              => /\ ~DocExists(req[r].u, req[r].doc_id)
                 /\ records \subseteq records'
                 /\ Cardinality(records') = Cardinality(records) + 1]_vars

(* C19: two files being processed at the same time by two requests never *)
(* have the same temporary path nor the same blob key.                   *)
C19_NamesOfFilesInFlightDiffer ==
    \A r1, r2 \in Reqs :
        (r1 # r2 /\ Ingesting(req[r1]) /\ Ingesting(req[r2]))
            => /\ (req[r1].temp_path # NoPath => req[r1].temp_path # req[r2].temp_path)
               /\ (req[r1].public_url # NoUrl => req[r1].public_url # req[r2].public_url)

(* records of user u that carry the blob url *)
RecordsWithUrl(rs, u, url) == {d \in rs : d.owner = u /\ d.image_url = url}

(* C20: when the entry of a file is appended to the results, a file      *)
(* reported as error has no record in the store, and a file reported as  *)
(* success with records_count = k has exactly k records, all with the    *)
(* file's primary blob url.                                              *)
C20_AllOrNothingPerFile ==
    [][\A r \in Reqs :
          LET q == req[r]
              n == Len(q.all_results)
              entry == req'[r].all_results[n + 1]
              mine == RecordsWithUrl(records', q.u, q.public_url)
          IN  (Ingesting(q) /\ Len(req'[r].all_results) = n + 1)
                => /\ entry.status = "error" => (q.public_url = NoUrl \/ mine = {})
                   /\ entry.status = "success"
                        => Cardinality(mine) = entry.records_count]_vars

(* blob keys the records refer to *)
BlobsReferenced(ds) == UNION {BlobsOf(d) : d \in {x \in ds : x.image_url # NoUrl}}

(* C21: when delete_user has returned for an existing user, the user has no *)
(* record left and no blob that the user's records referred to is left in   *)
(* the bucket.                                                              *)
C21_DeleteUserCascades ==
    \A r \in Reqs :
        LET q == req[r]
        IN  (q.op = "delete_user" /\ Returned(q))
                => /\ RecordsOf(q.u) = {}
                   /\ BlobsReferenced(q.seen) \cap blobs = {}

(* C22: every record in the store is stored under a user that exists. *)
C22_NoOrphanRecord == \A d \in records : users[d.owner].exists

(* an update_record request that found its record and carries the amount s *)
UpdatesAmount(q, s) ==
    /\ q.op = "update" /\ q.pc = "done" /\ q.record_data # NoRecord
    /\ q.data["total_amount"].kind = "str" /\ q.data["total_amount"].s = s

StoredAmount(rs, q) ==
    (CHOOSE d \in rs : d.owner = q.u /\ d.id = q.record_ids[1]).total_amount

(* C23: update_record with total_amount "¥1,234" is not refused and stores *)
(* the integer 1234 ("1,1" stores 11, "¥1" stores 1); the same request     *)
(* sent again after it succeeded leaves the record store unchanged.        *)
C23_AmountNormalizedIdempotent ==
    [][/\ \A r \in Reqs :
            LET q == req'[r]
            IN  /\ UpdatesAmount(q, YEN_1234)
                    => /\ q.response.code \in {200, 500}
                       /\ q.response.code = 200 => StoredAmount(records', q) = 1234
                /\ (UpdatesAmount(q, <<"1", ",", "1">>) /\ q.response.code = 200)
                    => StoredAmount(records', q) = 11
                /\ (UpdatesAmount(q, <<"¥", "1">>) /\ q.response.code = 200)
                    => StoredAmount(records', q) = 1
       /\ (/\ req["r2"].op = "update" /\ req["r2"].pc = "update"
           /\ req'["r2"].response.code = 200
           /\ req["r1"].response.code = 200)
            => records' = records]_vars

(* "¥1,234" was stored as 1234 and the repeated request has succeeded too *)
C23_Witness ==
    /\ \A r \in Reqs : UpdatesAmount(req[r], YEN_1234) /\ req[r].response.code = 200
    /\ StoredAmount(records, req["r2"]) = 1234

(* "¥1" was stored over the amount 1234 *)
C23_WitnessChanged ==
    /\ UpdatesAmount(req["r1"], <<"¥", "1">>) /\ req["r1"].response.code = 200
    /\ req["r1"].record_data.total_amount = ITEM_AMOUNT
    /\ StoredAmount(records, req["r1"]) = 1

(* amounts that are not a number after the normalization *)
NonNumericAmounts ==
    {[kind |-> "str", s |-> s, n |-> 0] :
        s \in {<<>>, <<"x">>, <<"1", " ", "1">>, <<"-">>, <<"¥", ",">>, <<"1", "x">>, <<" ">>}}
    \cup {[kind |-> "null", s |-> <<>>, n |-> 0]}

(* C24: update_record of an existing record with a total_amount that is  *)
(* not numeric after the normalization answers 400, and a request that   *)
(* was answered 400 has written nothing: the record and every other      *)
(* record are as they were, whatever date, vendor_name and category the  *)
(* request carried.                                                      *)
C24_BadAmountRejectedWhole ==
    \A r \in Reqs :
        LET q == req[r]
        IN  (q.op = "update" /\ q.pc = "done" /\ q.record_data # NoRecord)
                => /\ q.data["total_amount"] \in NonNumericAmounts => q.response.code = 400
                   /\ q.response.code = 400
                        => /\ AmountRejected(q.data)
                           /\ GetDoc(q.u, q.record_ids[1]) = q.record_data
                           /\ records = {OldJpg, OldPdf, OldLegacy}

(* "1 1" sent together with a new date, vendor and category was refused *)
C24_Witness ==
    LET q == req["r1"]
    IN  /\ q.op = "update" /\ q.pc = "done" /\ q.response.code = 400
        /\ q.data["total_amount"].kind = "str"
        /\ q.data["total_amount"].s = <<"1", " ", "1">>
        /\ q.data["date"] = NEW_DATE /\ q.data["vendor_name"] = NEW_VENDOR
        /\ q.data["category"] = NEW_CATEGORY
        /\ OldPdf \in records

FrameFields == {"owner", "id", "image_url", "is_pdf", "pdf_images", "source", "original_filename"}

(* the fields of a record a running request may change *)
Editable(q, d) ==
    IF q.u = d.owner /\ q.op = "update" /\ q.pc = "update" /\ q.record_ids[1] = d.id
    THEN EditKeys
    ELSE IF q.u = d.owner /\ q.op = "bulk_update" /\ q.pc = "bulk_update"
            /\ q.record_ids[q.idx] = d.id
    THEN BulkKeys
    ELSE {}

(* C25: a step of update_record or bulk_update_records changes nothing but *)
(* date, vendor_name, total_amount and category (bulk: category and date)  *)
(* of the record it addresses: the other fields of that record, the other  *)
(* records, the users (subscription included) and the bucket stay as they  *)
(* are, and no record appears or disappears.                               *)
C25_UpdateFrame ==
    [][/\ users' = users
       /\ blobs' = blobs
       /\ Cardinality(records') = Cardinality(records)
       /\ \A d \in records :
            \E e \in records' :
                /\ \A f \in FrameFields : e[f] = d[f]
                /\ \A f \in DOMAIN d :
                     e[f] # d[f] => \E r \in Reqs : f \in Editable(req[r], d)]_vars

(* an update that carried all four fields and an image_url has changed the *)
(* four fields of the record and nothing else                              *)
C25_Witness ==
    LET q == req["r1"]
        e == GetDoc(q.u, q.record_ids[1])
    IN  /\ q.op = "update" /\ q.pc = "done" /\ q.response.code = 200
        /\ q.data["image_url"] = OTHER_URL
        /\ e.date = NEW_DATE /\ e.vendor_name = NEW_VENDOR /\ e.category = NEW_CATEGORY
        /\ e.total_amount = 11
        /\ e.image_url = q.record_data.image_url

(* positions of the list whose id names a record the user had *)
ListedExisting(q) ==
    {i \in 1..Len(q.record_ids) :
        \E d \in {OldJpg, OldPdf, OldLegacy} : d.owner = q.u /\ d.id = q.record_ids[i]}

ListedIdSet(q) == {q.record_ids[i] : i \in 1..Len(q.record_ids)}

(* C26: when bulk_update_records returns its counters, updated + failed is *)
(* the number of listed ids and updated counts only ids that exist; when   *)
(* no call to Firestore failed, updated is the number of listed ids that   *)
(* exist, failed the number that do not, and every listed record carries   *)
(* the category/date of the request; records that are not listed are as   *)
(* they were.                                                             *)
C26_BulkUpdateCounts ==
    \A r \in Reqs :
        LET q == req[r]
            n == Len(q.record_ids)
            k == Cardinality(ListedExisting(q))
            update_data == BulkUpdateData(q.data)
        IN  (q.op = "bulk_update" /\ Returned(q))
                => /\ q.response.updated + q.response.failed = n
                   /\ q.response.updated <= k
                   /\ "db" \notin q.faults
                        => /\ q.response.updated = k
                           /\ q.response.failed = n - k
                           /\ \A d \in RecordsOf(q.u) :
                                d.id \in ListedIdSet(q)
                                    => \A f \in DOMAIN update_data : d[f] = update_data[f]
                   /\ \A d \in {OldJpg, OldPdf, OldLegacy} :
                        (d.owner # q.u \/ d.id \notin ListedIdSet(q)) => d \in records

(* a list with ids that exist and an id that does not, no failure: the *)
(* listed records carry the new category                               *)
C26_Witness ==
    LET q == req["r1"]
    IN  /\ q.op = "bulk_update" /\ Returned(q) /\ q.faults = {}
        /\ q.response.updated >= 1 /\ q.response.failed >= 1
        /\ q.data["category"] = NEW_CATEGORY
        /\ \E d \in records : d.category = NEW_CATEGORY

(* C27: a user never has more than one unused link token. *)
C27_OneUnusedTokenPerUser == \A u \in Users : Cardinality(UnusedTokensOf(u)) <= 1

(* C28: of the redemption attempts made with one token, at most one writes *)
(* a chat identity to the owner of the token.                               *)
C28_TokenSingleUse ==
    \A r1, r2 \in Reqs :
        (/\ r1 # r2
         /\ req[r1].op = "redeem" /\ req[r2].op = "redeem"
         /\ req[r1].token = req[r2].token)
            => ~(req[r1].bound /\ req[r2].bound)

(* a chat-image event that was answered without being ingested *)
LineRejected(q) ==
    q.op = "line" /\ q.pc = "done" /\ q.response.reply \in {"not_linked", "limit"}

(* the records written since the initial state *)
NewRecords == records \ {OldJpg, OldPdf}

LineGate ==
    \A r \in Reqs :
        LET q == req[r]
        IN  q.op = "line"
            => /\ q.u = None => (q.pc = "done" /\ q.response.reply = "not_linked")
               /\ q.u # None
                    => /\ users[q.u].exists /\ users[q.u].line_user_id \in LineIds
                       /\ q.usedAtStart >= users[q.u].limit
                            => (q.pc = "done" /\ q.response.reply = "limit")
               /\ LineRejected(q)
                    => /\ NewRecords = {} /\ tempFiles = {}
                       /\ blobs = BlobsOf(OldJpg) \cup BlobsOf(OldPdf)
               /\ (Returned(q) /\ q.response.reply = "done")
                    => /\ users[q.u].used = q.usedAtStart + 1
                       /\ Cardinality(NewRecords) = q.all_results[1].records_count
                       /\ \A d \in NewRecords : d.owner = q.u /\ d.source = "line"

(* C29: a chat image is ingested only when its sender resolves to an    *)
(* existing linked user who passes the quota gate; a rejected event      *)
(* changes no user, record, blob or temporary file; an event that was    *)
(* ingested with success created its records under the resolved user     *)
(* with source "line" and raised that user's used by exactly 1.          *)
C29_LineIngress ==
    [][/\ LineGate'
       /\ (\E r \in Reqs : LineRejected(req'[r]))
            => UNCHANGED <<users, records, blobs, tempFiles, clock>>]_vars

(* a chat image of the linked user was ingested: two records tagged line *)
C29_Witness ==
    LET q == req["r1"]
    IN  /\ Returned(q) /\ q.op = "line" /\ q.response.reply = "done"
        /\ Cardinality(NewRecords) = MaxItems
        /\ \A d \in NewRecords : d.source = "line"
        /\ users[q.u].used = q.usedAtStart + 1

(* how often the name occurs in the batch: the same for every order *)
Occurrences(files, name) == Cardinality({i \in 1..Len(files) : files[i] = name})

EntriesOf(results, name, st) ==
    Cardinality({i \in 1..Len(results) :
                    results[i].filename = name /\ results[i].status = st})

(* C30: what a returned batch leaves behind is determined by how often   *)
(* each file occurs in it, not by the order of the files: per file name  *)
(* the number of success and of error entries, the number of records     *)
(* (with the fields that do not hold generated names), and the growth of *)
(* used.                                                                 *)
C30_OrderIndependent ==
    LET q == req["r1"]
        ok(name) == ~ExtractionOf(name).raised
        succeeded == {i \in 1..Len(q.files) : ok(q.files[i])}
    IN  (q.op = "upload" /\ Returned(q))
            => /\ \A name \in OrderFiles :
                    LET k == Occurrences(q.files, name)
                    IN  /\ EntriesOf(q.all_results, name, "success") = (IF ok(name) THEN k ELSE 0)
                        /\ EntriesOf(q.all_results, name, "error") = (IF ok(name) THEN 0 ELSE k)
                        /\ Cardinality({d \in records : d.original_filename = name})
                                = k * ExtractionOf(name).n
               /\ \A d \in records :
                    /\ d.owner = q.u /\ d.source = "web"
                    /\ d.is_pdf = IsPdfName(d.original_filename)
                    /\ d.category = DEFAULT_CATEGORY
               /\ users[q.u].used = q.usedAtStart + Cardinality(succeeded)

(* a batch whose first file fails and whose second file is ingested *)
C30_Witness ==
    LET q == req["r1"]
    IN  /\ q.op = "upload" /\ Returned(q)
        /\ Len(q.files) = 2 /\ q.files[1] = "blurred.jpg" /\ q.files[2] = "b.pdf"
        /\ q.response.success = 1 /\ q.response.errors = 1
        /\ Cardinality(records) = 1

RetryEnded == rt.pc \in {"returned", "raised"}

(* C31: every call of analyze_with_gemini_retry ends (it returns or it   *)
(* raises), provided that on each attempt the service eventually reports *)
(* a state other than PROCESSING.                                         *)
C31_RetryTerminates == <>RetryEnded

(* a call that has ended after a failed attempt and a full round of polls *)
C31_Witness ==
    /\ rt.pc = "returned" /\ rt.result = "data_list"
    /\ rt.polls = MaxPolls /\ Len(rt.errs) >= 1

(* C32: an item whose date is written with a two-digit year is persisted *)
(* with the year mapped to 20xx: no record holds the two-digit date       *)
(* literally.                                                             *)
C32_TwoDigitYearMapped == \A d \in records : d.date # TWO_DIGIT_DATE

(* C33: an upload with an empty file list is answered 400 before the    *)
(* quota gate is evaluated: also for a user the gate would refuse, and   *)
(* no file is processed and nothing is changed.                          *)
C33_EmptyBatchRejectedFirst ==
    LET q == req["r1"]
    IN  (q.op = "upload" /\ Len(q.files) = 0)
            => /\ q.pc = "done" /\ q.response.code = 400
               /\ q.all_results = <<>>
               /\ records = {OldJpg, OldPdf}
               /\ blobs = BlobsOf(OldJpg) \cup BlobsOf(OldPdf)
               /\ tempFiles = {} /\ clock = 0
               /\ users[q.u].used = q.usedAtStart

(* an empty upload of a user who is at the limit *)
C33_Witness ==
    LET q == req["r1"]
    IN  /\ q.op = "upload" /\ Len(q.files) = 0 /\ q.pc = "done"
        /\ q.u = "u1" /\ users["u1"].used = users["u1"].limit
        /\ q.response.code = 400

(* C34: after one file has been ingested and every record it produced   *)
(* has been deleted again, used has the value it had before the          *)
(* ingestion, however many items the extraction returned.                *)
C34_IngestThenDeleteRestoresUsed ==
    LET q == req["r1"]
    IN  (/\ q.op = "upload" /\ Returned(q) /\ Len(q.files) = 1
         /\ q.response.success = 1
         /\ RecordsOf(q.u) = {}
         /\ req["r2"].pc \in {"idle", "done"})
            => users[q.u].used = q.usedAtStart

RecordOps == {"upload", "update", "delete", "bulk_delete", "bulk_update"}

(* C35: every step of a record request of user u leaves the records and  *)
(* the subscription of every other user as they were, also when the      *)
(* request names an id that exists under the other user.                 *)
C35_TenantIsolation ==
    [][\A v \in Users :
          (req'["r1"].op \in RecordOps /\ req'["r1"].u # v)
              => /\ RecordsOf(v)' = RecordsOf(v)
                 /\ users'[v] = users[v]]_vars

(* u1 has changed its record with the id that u2 also has a record for *)
C35_Witness ==
    LET q == req["r1"]
    IN  /\ q.op = "update" /\ q.u = "u1" /\ q.pc = "done" /\ q.response.code = 200
        /\ q.record_ids = <<-1>>
        /\ OldPdf \notin records /\ OtherPdf \in records

(* C36: a chat identity is linked to at most one user: no two users have *)
(* the same line_user_id, unless it is null.                              *)
C36_OneUserPerChatIdentity ==
    \A u, v \in Users :
        (u # v /\ users[u].exists /\ users[v].exists /\ users[u].line_user_id # None)
            => users[u].line_user_id # users[v].line_user_id

(* C37: a failure of the preprocessing never fails a file. When nothing *)
(* but the compression of an image or the rasterization of a PDF fails,  *)
(* every file of the request is a success, the records of a PDF whose    *)
(* rasterization failed have no page images, and used grows by one per   *)
(* file.                                                                 *)
C37_PreprocessingNeverFailsFile ==
    LET q == req["r1"]
    IN  /\ Ingesting(q) => CountStatus(q.all_results, "error") = 0
        /\ (Ingesting(q) /\ [idx |-> q.idx, step |-> "rasterize"] \in q.pre_failed)
                => q.pdf_image_urls = <<>>
        /\ (q.op = "upload" /\ Returned(q))
                => /\ q.response.success = Len(q.files) /\ q.response.errors = 0
                   /\ users[q.u].used = q.usedAtStart + Len(q.files)

(* a returned batch in which a compression and a rasterization failed *)
C37_Witness ==
    LET q == req["r1"]
    IN  /\ q.op = "upload" /\ Returned(q)
        /\ {e.step : e \in q.pre_failed} = {"compress", "rasterize"}
        /\ q.response.success = 2
        /\ \E d \in NewRecords : d.is_pdf /\ d.pdf_images = <<>>
        /\ \E d \in NewRecords : ~d.is_pdf

(* the batch after a plan change that left the limit at or below used *)
GateAfterPlanChange ==
    LET q == req["r1"]
    IN  (/\ q.op = "upload" /\ Len(q.files) > 0
         /\ req["r2"].op = "plan" /\ req["r2"].response.code = 200
         /\ req["r2"].u = q.u
         /\ users[q.u].limit <= q.usedAtStart)
            => /\ q.pc = "done" /\ q.response.code = 403
               /\ q.all_results = <<>>

(* C38: a change of plan sets limit to the limit of the chosen catalog  *)
(* plan and leaves used and the records as they were; a plan id that is *)
(* not in the catalog is answered 400 and nothing changes; after a      *)
(* change to a plan whose limit is at most used, the next batch of the  *)
(* user is refused by the quota gate.                                   *)
C38_PlanChange ==
    [][/\ LET q == req'["r2"]
          IN  (req["r2"].pc = "idle" /\ q.op = "plan")
                => /\ (q.plan \in DOMAIN PLANS /\ users[q.u].exists)
                        => /\ q.response.code = 200
                           /\ users'[q.u].limit = PLANS[q.plan].limit
                           /\ users'[q.u].used = users[q.u].used
                           /\ \A v \in Users \ {q.u} : users'[v] = users[v]
                   /\ q.plan \notin DOMAIN PLANS
                        => (q.response.code = 400 /\ users' = users)
                   /\ UNCHANGED <<records, blobs, tempFiles>>
       /\ GateAfterPlanChange']_vars

(* the user had used 11 on the premium plan, was moved to the free plan, *)
(* and the next batch was refused                                        *)
C38_Witness ==
    /\ req["r2"].op = "plan" /\ req["r2"].plan = "free" /\ req["r2"].response.code = 200
    /\ users["u1"].limit = FREE_LIMIT /\ users["u1"].used > FREE_LIMIT
    /\ req["r1"].op = "upload" /\ req["r1"].response.code = 403
    /\ records = {OldJpg, OldPdf}

(* C39: for every value of max_retries, also 0 and negative ones, a call *)
(* of analyze_with_gemini_retry that returns, returns a parsed result.    *)
C39_NeverReturnsWithoutResult ==
    \A m \in -1..MaxRetriesArg :
        (rt.max_retries = m /\ rt.pc = "returned") => rt.result # None

====
